---- MODULE Spec2Model ----
(***************************************************************************)
(* AtmosEye: the alert engine (SmokeDetector) of src/iaqcalc.py, driven by *)
(* the acquisition loop (continuous_sensor_reading) and by the API calls   *)
(* of src/app.py (toggle_test, dismiss_alert, settings updates).           *)
(*                                                                         *)
(* Spec      every handler is one atomic action (sequential semantics),    *)
(*           fed complete readings.                                        *)
(* SpecSensors  the sampling cycles alone, also with a sensor that was not *)
(*           found at start-up (its fields missing from every reading).    *)
(* SpecEngine   check_conditions alone, over every sequence of readings.   *)
(* SpecVoc   the engine in a room of steady temperature, where the VOC/gas *)
(*           condition fires on its own.                                   *)
(* SpecRace  check_conditions runs on the acquisition thread in steps, one *)
(*           per read or write of the shared globals, interleaved with the *)
(*           API thread's toggle_test / dismiss_alert.                     *)
(*                                                                         *)
(* The shared store (latest_sensor_data, history_buffer under data_lock),  *)
(* the persistence writer (periodic_csv_writer) and the retention worker   *)
(* (auto_maintenance_worker), each thread one step per lock operation:     *)
(*                                                                         *)
(* SpecStore     acquisition loop and writer, with a process restart.      *)
(* SpecLoops     acquisition loop, writer and retention worker together;   *)
(*               FairSpecLoops adds weak fairness inside the lock blocks.  *)
(* SpecPublish   the stamping of alert_active / state on a data point and  *)
(*               its publication, interleaved with the API thread.         *)
(* SpecRetention the retention worker, settings updates and manual-cleanup *)
(*               requests, over a directory tree of log files.             *)
(*                                                                         *)
(* The data path and the daemon threads:                                   *)
(*                                                                         *)
(* SpecProcessor IAQProcessor.process over sequences of raw readings, in   *)
(*               exact rational arithmetic.                                *)
(* SpecResample  the resampling and rounding of one write of the CSV file. *)
(* SpecSiren     Buzzer.start_alert / stop_alert called from two threads,  *)
(*               and the siren thread, one step per statement.             *)
(* SpecAcq       continuous_sensor_reading from thread start, in tenths of *)
(*               a second; FairSpecAcq adds weak fairness on its steps.    *)
(* SpecShutdown  the three loops and cleanup_on_exit of src/app.py;        *)
(*               FairSpecShutdown adds weak fairness on every loop.        *)
(* SpecMidnight  acquisition loop and writer across a local midnight;     *)
(*               FairSpecMidnight adds weak fairness on time and loops.    *)
(***************************************************************************)
EXTENDS Integers, Sequences, FiniteSets, TLC

\* ------------------------------------------------------------ constants
TEMP_SPIKE_THRESHOLD == 3
TEMP_SPIKE_WINDOW == 5
\* SmokeDetector.alert_cooldown
alert_cooldown == 300
\* user_settings["alertThreshold"]
alertThreshold == 150
\* thresholds of check_conditions
PM_TRIGGER == 100
VOC_TRIGGER == 250
GAS_DROP_TRIGGER == 25000
\* defaults of data.get(...) in check_conditions
DEFAULT_TEMP == 0
DEFAULT_GAS == 1000000
\* periodic_csv_writer: seconds between two writes, and the resampling grid ("30s")
CSV_WRITE_INTERVAL == 60
RESAMPLE_SECONDS == 30
\* auto_maintenance_worker: the horizon used when the retention string does not parse
RETENTION_DEFAULT_DAYS == 90
\* iaqcalc.py line 28, in seconds
SENSOR_READ_INTERVAL == 2
\* line 32
ROLLING_WINDOW_SIZE == 5
\* line 414: time.sleep(10) after an exception in a cycle
ERROR_SLEEP == 10

\* ------------------------------------------------------------ bounds
\* sampling cycles per behaviour
MaxCycles == 6
\* time.time() when the detector is constructed (epoch seconds, far above the cooldown)
StartTime == 1000
\* API calls (toggle_test, dismiss_alert, settings updates) per behaviour
MaxCalls == 2
\* sampling gaps longer than the cooldown per behaviour
MaxLongGaps == 1
\* seconds between two sampling cycles
ShortGap == 10
LongGap == alert_cooldown + 1
\* capacity of history_buffer: 43200 in the source, scaled down so that the ring
\* overflows within MaxCycles appends
HISTORY_BUFFER_SIZE == 3
\* entries the acquisition loop publishes per behaviour (SpecStore, SpecLoops)
MaxAppends == 4
\* process restarts per behaviour
MaxRestarts == 1
\* days that pass per behaviour
MaxDays == 1
\* manual-cleanup requests per behaviour
MaxRequests == 2
\* clock ticks per second in the acquisition loop's timing (its shortest sleep
\* is time.sleep(0.1))
TicksPerSecond == 10
\* start_alert / stop_alert calls per behaviour (SpecSiren)
MaxBuzzerCalls == 3
\* samples given to one IAQProcessor per behaviour
MaxSamples == 3
\* from this many ticks on, the time since the last read is no longer counted
Saturation == (ERROR_SLEEP + SENSOR_READ_INTERVAL) * TicksPerSecond

\* ------------------------------------------------------------ readings
\* A reading is a dict: a function whose DOMAIN is the set of keys present.
Get(d, k, default) == IF k \in DOMAIN d THEN d[k] ELSE default

\* What Sensor.get_data returns: the BME688 fields and the PMSA003 field, each
\* sensor's fields present only if Sensor.__init__ found that sensor. (A read that
\* fails makes get_data return None, and the loop skips that pass.)
RawReadings ==
  { [temperature |-> 20, humidity |-> 40, gas_resistance |-> 100000, pm25 |-> 10],
    [temperature |-> 20, humidity |-> 40, gas_resistance |-> 100000, pm25 |-> 150],
    [temperature |-> 24, humidity |-> 40, gas_resistance |-> 70000, pm25 |-> 10],
    [temperature |-> 24, humidity |-> 40, gas_resistance |-> 70000, pm25 |-> 150],
    [temperature |-> 20, humidity |-> 40, gas_resistance |-> 100000],
    [temperature |-> 24, humidity |-> 40, gas_resistance |-> 70000],
    [pm25 |-> 10] }

\* IAQProcessor.process returns {} when one of the four required fields is missing
RequiredFields == {"gas_resistance", "pm25", "temperature", "humidity"}
process_empty(raw) == \E k \in RequiredFields : k \notin DOMAIN raw

\* the readings in which both sensors answered
CompleteReadings == { raw \in RawReadings : ~process_empty(raw) }

\* The metrics IAQProcessor.process may return for a complete reading. voc_index and
\* iaq depend on the gas baseline the processor holds, which is left open here:
\* the pairs lie below, at and above the thresholds check_conditions compares with.
Derived(raw) ==
  IF raw.pm25 > PM_TRIGGER
  THEN IF raw.temperature > 20
       THEN { [voc_index |-> 0, iaq |-> 100], [voc_index |-> 260, iaq |-> 230] }
       ELSE { [voc_index |-> 0, iaq |-> 150] }
  ELSE IF raw.temperature > 20
       THEN { [voc_index |-> 0, iaq |-> 30] }
       ELSE { [voc_index |-> 0, iaq |-> 30], [voc_index |-> 0, iaq |-> 200] }

\* final_data_point = {**raw_data, **calculated_data}
Merge(raw, calc) ==
  [k \in DOMAIN raw \cup DOMAIN calc |-> IF k \in DOMAIN calc THEN calc[k] ELSE raw[k]]

EmptyDict == [k \in {} |-> 0]

\* A reading none of whose present fields can fire a trigger: particulates and VOC
\* index not above their thresholds, temperature and gas resistance at their steady
\* values (those of the first raw reading above).
Benign(d) ==
  /\ Get(d, "pm25", 0) <= PM_TRIGGER
  /\ Get(d, "voc_index", 0) <= VOC_TRIGGER
  /\ ("temperature" \in DOMAIN d => d.temperature = 20)
  /\ ("gas_resistance" \in DOMAIN d => d.gas_resistance = 100000)

\* the final data points the acquisition loop can build from the raw readings raws
FinalDataPoints(raws) ==
  UNION { IF process_empty(raw) THEN { raw }
          ELSE { Merge(raw, c) : c \in Derived(raw) } : raw \in raws }

\* ------------------------------------------------------------ state
VARIABLES
  alert_active,        \* global alert_active
  alert_state,         \* global alert_state: SAFE, WARNING, SMOKE, TEST
  user_settings,       \* global user_settings (the keys the alert engine reads)
  test_alert_active,   \* SmokeDetector.test_alert_active
  last_alert_time,     \* SmokeDetector.last_alert_time
  temp_history,        \* SmokeDetector.temp_history, deque(maxlen=5)
  gas_history,         \* SmokeDetector.gas_history, deque(maxlen=5)
  stop_flag,           \* Buzzer.stop_flag (threading.Event)
  siren_alive,         \* Buzzer.siren_thread is alive
  clock,               \* time.time()
  cycles,              \* sampling cycles run so far
  calls,               \* API calls made so far
  op,                  \* the operation that ran last
  pre,                 \* alert_state, alert_active, last_alert_time when it started
  data,                \* final_data_point of the last sampling cycle
  trigger_count,       \* trigger_count of the last sampling cycle, -1 if it computed none
  queued,              \* kinds of the messages the last operation gave to bot.queue_message
  smoke_times,         \* times of the SMOKE transitions made so far
  benign,              \* every reading so far was benign (see Benign)
  pc,                  \* SpecRace: the source line each thread is at, or "idle"
  ret,                 \* SpecRace: where each thread goes when its trigger_alert / clear_alert returns
  now,                 \* SpecRace: check_conditions' local now
  latest_sensor_data,  \* global latest_sensor_data
  history_buffer,      \* global history_buffer, deque(maxlen=HISTORY_BUFFER_SIZE)
  data_lock,           \* global data_lock: "free" or the thread holding it
  point,               \* the acquisition loop's final_data_point (timestamp and alert stamps)
  appended,            \* every entry appended to history_buffer so far, oldest first
  partition,           \* on disk: the 30 s buckets in each day's <year>/<month>/<day>.csv
  buffer_copy,         \* periodic_csv_writer's local buffer_copy
  last_check_time,     \* periodic_csv_writer's local last_check_time
  flushed,             \* partition as it was when the process last restarted
  restarts,            \* process restarts so far
  log_files,           \* on disk: the files under LOG_DIR
  today,               \* the local date, as days since StartDate
  retention_period,    \* auto_maintenance_worker's local retention_period
  run_manual,          \* auto_maintenance_worker's local run_manual
  days,                \* auto_maintenance_worker's local days, -1 before it is computed
  deleted,             \* the files the last retention pass removed
  passes,              \* retention passes run so far, and how many of them manual
  requests,            \* manual-cleanup requests made so far
  HAVE_SENSORS,        \* global HAVE_SENSORS: the hardware libraries were imported
  telegram_bot_instance,   \* global telegram_bot_instance is set
  smoke_detector_instance, \* global smoke_detector_instance is set
  sensor_status,       \* system_health['sensor_status']
  elapsed,             \* continuous_sensor_reading: time.time() - last_read_time, in ticks
  since_attempt,       \* ticks since sensor.get_data() was last called
  raw_data,            \* the reading handed to IAQProcessor.process / returned by get_data
  shutdown_requested,  \* cleanup_on_exit has run
  ewma_baseline,       \* IAQProcessor.ewma_baseline: None or a fraction
  gas_window,          \* IAQProcessor.gas_window, deque(maxlen=ROLLING_WINDOW_SIZE)
  calculated_data,     \* what IAQProcessor.process returned last
  baselines,           \* ewma_baseline after each sample so far
  csv_rows,            \* the rows periodic_csv_writer wrote to today's file
  siren_thread,        \* Buzzer.siren_thread: None or the thread it refers to
  sirens,              \* the BuzzerSiren threads started so far, each one's position
  buzzer_calls,        \* start_alert / stop_alert calls that have returned, oldest first
  dismissed_at         \* time of the last dismiss_alert that cleared an alert, -1 if none

storeVars == << latest_sensor_data, history_buffer, data_lock, point, appended >>
writerVars == << partition, buffer_copy, last_check_time, flushed, restarts >>
retentionVars == << log_files, today, retention_period, run_manual, days, deleted, passes,
                   requests >>
pipelineVars == << storeVars, writerVars, retentionVars >>
acqVars == << HAVE_SENSORS, telegram_bot_instance, smoke_detector_instance, sensor_status,
             elapsed, since_attempt >>
processorVars == << raw_data, ewma_baseline, gas_window, calculated_data, baselines >>
sirenVars == << siren_thread, sirens, buzzer_calls >>
daemonVars == << acqVars, processorVars, sirenVars, shutdown_requested, csv_rows,
                dismissed_at >>

vars == << alert_active, alert_state, user_settings, test_alert_active, last_alert_time,
           temp_history, gas_history, stop_flag, siren_alive, clock, cycles, calls, op, pre,
           data, trigger_count, queued, smoke_times, benign, pc, ret, now, pipelineVars,
           daemonVars >>

raceVars == << pc, ret, now >>

\* the acquisition thread, one API (Flask request) thread, the persistence writer
\* (periodic_csv_writer) and the retention worker (auto_maintenance_worker)
Threads == {"acq", "api", "writer", "maint"}

\* The part of the state the handlers of SmokeDetector and Buzzer read and write.
Engine ==
  [ alert_active |-> alert_active, alert_state |-> alert_state,
    test_alert_active |-> test_alert_active, last_alert_time |-> last_alert_time,
    temp_history |-> temp_history, gas_history |-> gas_history,
    stop_flag |-> stop_flag, siren_alive |-> siren_alive,
    queued |-> << >>, trigger_count |-> -1, smoke_times |-> smoke_times ]

Install(s) ==
  /\ alert_active' = s.alert_active
  /\ alert_state' = s.alert_state
  /\ test_alert_active' = s.test_alert_active
  /\ last_alert_time' = s.last_alert_time
  /\ temp_history' = s.temp_history
  /\ gas_history' = s.gas_history
  /\ stop_flag' = s.stop_flag
  /\ siren_alive' = s.siren_alive
  /\ queued' = s.queued
  /\ trigger_count' = s.trigger_count
  /\ smoke_times' = s.smoke_times

Snapshot == [ alert_state |-> alert_state, alert_active |-> alert_active,
              last_alert_time |-> last_alert_time ]

\* ------------------------------------------------------------ Buzzer
\* Buzzer.start_alert (is_setup holds whenever the acquisition loop runs)
start_alert(s) == [s EXCEPT !.stop_flag = FALSE, !.siren_alive = TRUE]

\* Buzzer.stop_alert
stop_alert(s) == [s EXCEPT !.stop_flag = TRUE]

\* ------------------------------------------------------------ SmokeDetector
\* a deque that never evicts
deque_append_unbounded(q, x, n) == Append(q, x)

\* collections.deque(maxlen=n).append
deque_append(q, x, n) == IF Len(q) < n THEN Append(q, x) ELSE Append(Tail(q), x)

\* SmokeDetector.trigger_alert
trigger_alert(s, state, settings) ==
  LET s1 == [s EXCEPT !.alert_active = TRUE, !.alert_state = state,
                      !.queued = Append(@, "alert")]
  IN IF settings.emergencyAlert \/ state = "TEST" THEN start_alert(s1) ELSE s1

\* clear_alert without its buzzer.stop_alert() call
clear_alert_no_stop(s) ==
  [s EXCEPT !.alert_active = FALSE, !.alert_state = "SAFE",
            !.queued = Append(@, "recovery")]

\* SmokeDetector.clear_alert
clear_alert(s) ==
  stop_alert([s EXCEPT !.alert_active = FALSE, !.alert_state = "SAFE",
                       !.queued = Append(@, "recovery")])

\* dismiss_alert that restarts the cooldown but forgets clear_alert
dismiss_alert_no_clear(s, t) ==
  IF ~s.alert_active THEN s
  ELSE [s EXCEPT !.last_alert_time = t]

\* SmokeDetector.dismiss_alert, called at time t
dismiss_alert(s, t) ==
  IF ~s.alert_active THEN s
  ELSE clear_alert([s EXCEPT !.last_alert_time = t])

\* SmokeDetector.toggle_test
toggle_test(s, settings) ==
  IF s.test_alert_active
  THEN clear_alert([s EXCEPT !.test_alert_active = FALSE])
  ELSE trigger_alert([s EXCEPT !.test_alert_active = TRUE], "TEST", settings)

\* twice gas_change = np.mean(gas_history[:2]) - np.mean(gas_history[-2:]), kept integral
gas_change_x2(gh) == (gh[1] + gh[2]) - (gh[Len(gh) - 1] + gh[Len(gh)])

\* temp_spike = temp_history[-1] - temp_history[0]
temp_spike(th) == th[Len(th)] - th[1]

\* triggers with the VOC/gas condition appended once
triggers_voc_once(d, th, gh) ==
  (IF Get(d, "pm25", 0) > PM_TRIGGER THEN << "PM2.5" >> ELSE << >>)
  \o (IF Get(d, "voc_index", 0) > VOC_TRIGGER \/ gas_change_x2(gh) > 2 * GAS_DROP_TRIGGER
      THEN << "VOC Index" >> ELSE << >>)
  \o (IF temp_spike(th) > TEMP_SPIKE_THRESHOLD THEN << "Temp Spike" >> ELSE << >>)

\* the list triggers of check_conditions, as the sequence of its reasons
triggers(d, th, gh) ==
  (IF Get(d, "pm25", 0) > PM_TRIGGER THEN << "PM2.5" >> ELSE << >>)
  \o (IF Get(d, "voc_index", 0) > VOC_TRIGGER \/ gas_change_x2(gh) > 2 * GAS_DROP_TRIGGER
      THEN << "VOC Index", "Gas Drop" >> ELSE << >>)
  \o (IF temp_spike(th) > TEMP_SPIKE_THRESHOLD THEN << "Temp Spike" >> ELSE << >>)

\* the cooldown test without the cooldown
cooldown_ignored(t, last) == t - last > 0

\* now - self.last_alert_time > self.alert_cooldown
cooldown_elapsed(t, last) == t - last > alert_cooldown

\* the smoke transition taken on a single trigger
smoke_logic_one_trigger(s, tc, t, settings) ==
  IF tc >= 1 /\ cooldown_elapsed(t, s.last_alert_time)
  THEN IF ~s.alert_active
       THEN [trigger_alert(s, "SMOKE", settings) EXCEPT
               !.last_alert_time = t, !.smoke_times = Append(@, t)]
       ELSE s
  ELSE IF tc = 0 /\ s.alert_active
       THEN IF s.alert_state \in {"SMOKE", "WARNING"} THEN clear_alert(s) ELSE s
       ELSE s

\* check_conditions, lines 274-282: the smoke transition and the clearing
smoke_logic(s, tc, t, settings) ==
  IF tc >= 2 /\ cooldown_elapsed(t, s.last_alert_time)
  THEN IF ~s.alert_active
       THEN [trigger_alert(s, "SMOKE", settings) EXCEPT
               !.last_alert_time = t, !.smoke_times = Append(@, t)]
       ELSE s
  ELSE IF tc = 0 /\ s.alert_active
       THEN IF s.alert_state \in {"SMOKE", "WARNING"} THEN clear_alert(s) ELSE s
       ELSE s

\* check_conditions, lines 284-289: the IAQ warning
warning_logic(s, d, settings) ==
  IF ~s.alert_active /\ Get(d, "iaq", 0) > settings.alertThreshold
  THEN [s EXCEPT !.alert_state = "WARNING"]
  ELSE IF ~s.alert_active /\ s.alert_state = "WARNING"
          /\ Get(d, "iaq", 0) < settings.alertThreshold
       THEN [s EXCEPT !.alert_state = "SAFE"]
       ELSE s

\* the disabled branch returning at once
detection_disabled_noop(s) == s

\* check_conditions, lines 235-238: smoke detection disabled
detection_disabled(s) ==
  IF s.alert_active /\ s.alert_state = "SMOKE" THEN clear_alert(s) ELSE s

\* check_conditions testing the TEST override only after the windows were fed
check_conditions_late_override(s, d, t, settings) ==
  IF ~settings.enableSmokeDetection
  THEN detection_disabled(s)
  ELSE LET s1 == [s EXCEPT
                    !.temp_history = deque_append(@, Get(d, "temperature", DEFAULT_TEMP),
                                                  TEMP_SPIKE_WINDOW),
                    !.gas_history = deque_append(@, Get(d, "gas_resistance", DEFAULT_GAS),
                                                 TEMP_SPIKE_WINDOW)]
       IN IF s.test_alert_active
          THEN [s1 EXCEPT !.alert_active = TRUE, !.alert_state = "TEST"]
          ELSE IF Len(s1.temp_history) < TEMP_SPIKE_WINDOW THEN s1
          ELSE LET tc == Len(triggers(d, s1.temp_history, s1.gas_history))
                   s2 == smoke_logic([s1 EXCEPT !.trigger_count = tc], tc, t, settings)
               IN warning_logic(s2, d, settings)

\* SmokeDetector.check_conditions(data) run at time t
check_conditions(s, d, t, settings) ==
  IF ~settings.enableSmokeDetection
  THEN detection_disabled(s)
  ELSE IF s.test_alert_active
  THEN [s EXCEPT !.alert_active = TRUE, !.alert_state = "TEST"]
  ELSE LET s1 == [s EXCEPT
                    !.temp_history = deque_append(@, Get(d, "temperature", DEFAULT_TEMP),
                                                  TEMP_SPIKE_WINDOW),
                    !.gas_history = deque_append(@, Get(d, "gas_resistance", DEFAULT_GAS),
                                                 TEMP_SPIKE_WINDOW)]
       IN IF Len(s1.temp_history) < TEMP_SPIKE_WINDOW THEN s1
          ELSE LET tc == Len(triggers(d, s1.temp_history, s1.gas_history))
                   s2 == smoke_logic([s1 EXCEPT !.trigger_count = tc], tc, t, settings)
               IN warning_logic(s2, d, settings)

\* ------------------------------------------------------------ IAQProcessor
\* The processor computes in floating point; here every value is an exact
\* fraction [n, d] with d > 0, in lowest terms. Gas resistance is in kilo-ohms
\* (the source's ohms divided by 1000, so clip(g, 10000, 500000) is Clip(g, 10, 500))
\* and a PM2.5 concentration is in hundredths of a microgram per cubic metre, so
\* that the breakpoints 12.0, 12.1, ... are the integers 1200, 1210, ...
Abs(x) == IF x < 0 THEN -x ELSE x

RECURSIVE Gcd(_, _)
Gcd(a, b) == IF b = 0 THEN a ELSE Gcd(b, a % b)

Frac(n, d) ==
  LET g == Gcd(Abs(n), d) IN [n |-> n \div g, d |-> d \div g]

Whole(x) == [n |-> x, d |-> 1]
FAdd(a, b) == Frac(a.n * b.d + b.n * a.d, a.d * b.d)
FSub(a, b) == Frac(a.n * b.d - b.n * a.d, a.d * b.d)
FMul(a, b) == Frac(a.n * b.n, a.d * b.d)
\* a / b for b > 0
FDiv(a, b) == FMul(Frac(a.n, b.n), Frac(b.d, a.d))
FLess(a, b) == a.n * b.d < b.n * a.d
FMax(a, b) == IF FLess(a, b) THEN b ELSE a
FMin(a, b) == IF FLess(b, a) THEN b ELSE a

\* round(x) of Python 3 and numpy: to the nearest integer, a tie to the even one
round(x) ==
  LET q == x.n \div x.d
      r == x.n - q * x.d
  IN IF 2 * r < x.d THEN q
     ELSE IF 2 * r > x.d THEN q + 1
     ELSE IF q % 2 = 0 THEN q ELSE q + 1

\* ewma_baseline before the first valid sample
None == [n |-> 0, d |-> 0]

\* IAQProcessor.alpha, line 181
alpha == Frac(2, 10)

\* the bounds of np.clip at line 192, in kilo-ohms
GAS_CLIP_LOW == 10
GAS_CLIP_HIGH == 500
Clip(x, lo, hi) == IF x < lo THEN lo ELSE IF x > hi THEN hi ELSE x

RECURSIVE Sum(_)
Sum(q) == IF q = << >> THEN 0 ELSE Head(q) + Sum(Tail(q))

\* np.mean of a window
Mean(q) == Frac(Sum(q), Len(q))

\* the breakpoint table of _pm25_to_aqi, line 334-335: low_c, high_c, low_i, high_i
breakpoints ==
  << << 0, 1200, 0, 50 >>, << 1210, 3540, 51, 100 >>, << 3550, 5540, 101, 150 >>,
     << 5550, 15040, 151, 200 >>, << 15050, 25040, 201, 300 >>,
     << 25050, 50040, 301, 500 >> >>

\* the value the loop of lines 336-338 returns for the first bracket holding c
interpolate(c, b) ==
  round(Frac((b[4] - b[3]) * (c - b[1]) + b[3] * (b[2] - b[1]), b[2] - b[1]))

\* _pm25_to_aqi, lines 331-339 (None never reaches it from process: line 190)
_pm25_to_aqi(pm) ==
  IF pm < 0 THEN 0
  ELSE LET hits == { i \in DOMAIN breakpoints :
                       breakpoints[i][1] <= pm /\ pm <= breakpoints[i][2] }
       IN IF hits = {} THEN 500
          ELSE interpolate(pm, breakpoints[CHOOSE i \in hits : \A j \in hits : i <= j])

\* the baseline taken over unweighted: the new sample replaces it
ewma_replace(baseline, smoothed) == smoothed

\* lines 195-196: the first valid sample initialises the baseline, a later one
\* moves it by alpha
ewma(baseline, smoothed) ==
  IF baseline = None THEN smoothed
  ELSE FAdd(FMul(alpha, smoothed), FMul(FSub(Whole(1), alpha), baseline))

\* a deviation that keeps its sign
deviation_signed(baseline, smoothed) == FSub(baseline, smoothed)

\* line 198: deviation = max(0, self.ewma_baseline - smoothed_gas)
deviation(baseline, smoothed) == FMax(Whole(0), FSub(baseline, smoothed))

\* line 199
voc_index(baseline, smoothed) ==
  IF baseline.n > 0
  THEN FMin(Whole(500), FMul(FDiv(deviation(baseline, smoothed), baseline), Whole(500)))
  ELSE Whole(0)

\* lines 201-204
humidity_penalty(humidity) == IF humidity > 70 THEN (humidity - 70) * 2 ELSE 0
temp_penalty(temp) ==
  IF temp < 18 THEN (18 - temp) * 2 ELSE IF temp > 26 THEN (temp - 26) * 2 ELSE 0

\* lines 206-207
fused_iaq(voc, aqi, humidity, temp) ==
  LET fused == FAdd(FAdd(FMul(voc, Frac(1, 2)), Frac(aqi, 2)),
                    Whole(humidity_penalty(humidity) + temp_penalty(temp)))
      rounded == round(fused)
  IN IF rounded > 500 THEN 500 ELSE rounded

\* IAQProcessor.process, lines 184-216: the processor p = [ewma_baseline,
\* gas_window] after the call and the dict it returns (co2_equivalent, a power of
\* 1.5 that no later step of the daemon reads, is left out of the dict)
process(p, raw) ==
  IF process_empty(raw) THEN [p |-> p, result |-> EmptyDict]
  ELSE
    LET window == deque_append(p.gas_window,
                               Clip(raw.gas_resistance, GAS_CLIP_LOW, GAS_CLIP_HIGH),
                               ROLLING_WINDOW_SIZE)
        smoothed_gas == Mean(window)
        baseline == ewma(p.ewma_baseline, smoothed_gas)
        voc == voc_index(baseline, smoothed_gas)
        pm25_aqi == _pm25_to_aqi(raw.pm25)
    IN [ p |-> [ewma_baseline |-> baseline, gas_window |-> window],
         result |-> [ iaq |-> fused_iaq(voc, pm25_aqi, raw.humidity, raw.temperature),
                      aqi |-> pm25_aqi,
                      voc_index |-> round(voc) ] ]

\* ------------------------------------------------------------ shared store, disk
\* A FusedReading as far as the store and the writer look at it: its timestamp and
\* the alert stamps of lines 396-397.
Stamp(ts, active, state) == [timestamp |-> ts, alert_active |-> active, state |-> state]

\* history_buffer.append(final_data_point) on deque(maxlen=HISTORY_BUFFER_SIZE)
history_append(h, p) == deque_append(h, p, HISTORY_BUFFER_SIZE)

\* a copy that drains the deque
history_drained(h) == << >>

\* buffer_copy = list(history_buffer): the copy leaves the deque as it is
history_after_copy(h) == h

\* The local (Asia/Kolkata, UTC+5:30) day of an epoch timestamp, counted from the epoch.
local_day(ts) == (ts + 5 * 3600 + 1800) \div (24 * 3600)

\* df_today.resample("30s"): the bucket a timestamp falls into
bucket(ts) == ts \div RESAMPLE_SECONDS

\* The rows periodic_csv_writer writes from buffer_copy at time t: one per 30 s
\* bucket holding an entry of the local day of t (lines 439-454).
rows_of_today(copy, t) ==
  { bucket(copy[i].timestamp) :
      i \in { j \in 1..Len(copy) : local_day(copy[j].timestamp) = local_day(t) } }

\* A Python str is the sequence of its characters.
DigitChars == {"0", "1", "2", "3", "4", "5", "6", "7", "8", "9"}
DigitValue(c) ==
  CASE c = "0" -> 0 [] c = "1" -> 1 [] c = "2" -> 2 [] c = "3" -> 3 [] c = "4" -> 4
    [] c = "5" -> 5 [] c = "6" -> 6 [] c = "7" -> 7 [] c = "8" -> 8 [] c = "9" -> 9

IsDigits(str) == Len(str) > 0 /\ \A i \in 1..Len(str) : str[i] \in DigitChars

RECURSIVE NatOf(_)
NatOf(str) ==
  IF str = << >> THEN 0
  ELSE 10 * NatOf(SubSeq(str, 1, Len(str) - 1)) + DigitValue(str[Len(str)])

\* int(str) succeeds on decimal digits with an optional sign (the strings used
\* here hold no blanks or underscores) and raises ValueError otherwise
int_parses(str) ==
  \/ IsDigits(str)
  \/ Len(str) >= 2 /\ str[1] \in {"+", "-"} /\ IsDigits(Tail(str))
int_of(str) ==
  IF str[1] = "-" THEN 0 - NatOf(Tail(str))
  ELSE IF str[1] = "+" THEN NatOf(Tail(str))
  ELSE NatOf(str)

\* retention_period[:-1]
drop_last(str) == IF str = << >> THEN << >> ELSE SubSeq(str, 1, Len(str) - 1)

\* lines 499-503: days = int(retention_period[:-1]), 90 when that raises
retention_days(period) ==
  IF int_parses(drop_last(period)) THEN int_of(drop_last(period))
  ELSE RETENTION_DEFAULT_DAYS

\* the values of logRetentionPeriod
Forever == << "f", "o", "r", "e", "v", "e", "r" >>
RetentionStrings ==
  { << "9", "0", "d" >>, << "1", "d" >>, Forever, << "9", "0" >>, << "8", "9", "w" >>,
    << "-", "1", "d" >>, << "d" >>, << "n", "o", "n", "e" >> }

\* a valid retention string: '<non-negative integer>d'
valid_retention(period) ==
  Len(period) >= 2 /\ period[Len(period)] = "d" /\ IsDigits(drop_last(period))

\* datetime(year, month, day) and date.toordinal(): the proleptic Gregorian calendar
IsLeap(y) == (y % 4 = 0 /\ y % 100 # 0) \/ y % 400 = 0
DaysInMonth(y, m) ==
  IF m = 2 THEN (IF IsLeap(y) THEN 29 ELSE 28)
  ELSE IF m \in {4, 6, 9, 11} THEN 30 ELSE 31
valid_date(y, m, d) ==
  y \in 1..9999 /\ m \in 1..12 /\ d \in 1..DaysInMonth(y, m)
RECURSIVE DaysBeforeMonth(_, _)
DaysBeforeMonth(y, m) ==
  IF m = 1 THEN 0 ELSE DaysBeforeMonth(y, m - 1) + DaysInMonth(y, m - 1)
toordinal(y, m, d) ==
  365 * (y - 1) + ((y - 1) \div 4) - ((y - 1) \div 100) + ((y - 1) \div 400)
    + DaysBeforeMonth(y, m) + d

\* the local date when the process starts
StartDate == [year |-> 2025, month |-> 5, day |-> 31]
StartDay == toordinal(StartDate.year, StartDate.month, StartDate.day)

\* A file under LOG_DIR: the names of its two parent directories and of the file,
\* the file name split into stem and extension (no stem holds a dot). age is not
\* on disk: it is the number of days from the file's date to StartDate, worked out
\* by hand, and -1 for a name that is no date.
File(y, m, stem, ext, age) ==
  [year_str |-> y, month_str |-> m, stem |-> stem, ext |-> ext, age |-> age]
LogFiles ==
  { File(<< "2", "0", "2", "5" >>, << "0", "3" >>, << "0", "1" >>, ".csv", 91),
    File(<< "2", "0", "2", "5" >>, << "0", "3" >>, << "0", "2" >>, ".csv.gz", 90),
    File(<< "2", "0", "2", "5" >>, << "0", "3" >>, << "0", "3" >>, ".csv", 89),
    File(<< "2", "0", "2", "5" >>, << "0", "5" >>, << "2", "1" >>, ".csv", 10),
    File(<< "2", "0", "2", "5" >>, << "0", "5" >>, << "3", "1" >>, ".csv", 0),
    File(<< "2", "0", "2", "4" >>, << "0", "2" >>, << "3", "0" >>, ".csv", -1),
    File(<< "2", "0", "2", "4" >>, << "1", "1" >>, << "n", "o", "t", "e", "s" >>, ".txt", -1),
    File(<< "l", "o", "g", "s" >>, << "2", "0", "2", "5" >>, << "1", "2" >>, ".csv", -1) }

\* line 514: filename.replace('.csv.gz','').replace('.csv','') and splitext leave the stem
day_str(f) == f.stem

\* lines 514-518: file_date = datetime(int(year_str), int(month_str), int(day_str)),
\* which raises for a name that is no number and for a date that does not exist
file_date_parses(f) ==
  /\ int_parses(f.year_str) /\ int_parses(f.month_str) /\ int_parses(day_str(f))
  /\ valid_date(int_of(f.year_str), int_of(f.month_str), int_of(day_str(f)))
file_date(f) == toordinal(int_of(f.year_str), int_of(f.month_str), int_of(day_str(f)))

\* The handler of the try of line 513 lies beyond the end of src/iaqcalc.py: a file
\* whose name raises is skipped and the walk goes on (specification, 4.6).
parse_error_deletes == FALSE

\* the comparison of line 520 with <= for <
files_to_delete_inclusive(files, t, n) ==
  { f \in files : IF file_date_parses(f) THEN file_date(f) <= t - n
                  ELSE parse_error_deletes }

\* lines 505-524: the files a pass removes when it runs on day t with horizon n
\* (cutoff_date = now - timedelta(days=n); file_date.date() < cutoff_date.date())
files_to_delete(files, t, n) ==
  { f \in files : IF file_date_parses(f) THEN file_date(f) < t - n
                  ELSE parse_error_deletes }

InitPipeline ==
  /\ latest_sensor_data = EmptyDict
  /\ history_buffer = << >>
  /\ data_lock = "free"
  /\ point = EmptyDict
  /\ appended = << >>
  /\ partition = EmptyDict
  /\ buffer_copy = << >>
  /\ last_check_time = 0
  /\ flushed = EmptyDict
  /\ restarts = 0
  /\ log_files = LogFiles
  /\ today = StartDay
  /\ retention_period = << >>
  /\ run_manual = FALSE
  /\ days = -1
  /\ deleted = {}
  /\ passes = [total |-> 0, manual |-> 0]
  /\ requests = 0

\* ------------------------------------------------------------ actions of Spec
\* the alert engine after SmokeDetector.__init__, with the globals of lines 45-54
InitAlertEngine ==
  /\ alert_active = FALSE
  /\ alert_state = "SAFE"
  /\ user_settings = [enableSmokeDetection |-> TRUE, emergencyAlert |-> FALSE,
                      alertThreshold |-> alertThreshold,
                      logRetentionPeriod |-> << "9", "0", "d" >>]
  /\ test_alert_active = FALSE
  /\ last_alert_time = 0
  /\ temp_history = << >>
  /\ gas_history = << >>
  /\ stop_flag = FALSE
  /\ siren_alive = FALSE
  /\ cycles = 0
  /\ calls = 0
  /\ op = "init"
  /\ pre = Snapshot
  /\ data = EmptyDict
  /\ trigger_count = -1
  /\ queued = << "info" >>
  /\ smoke_times = << >>
  /\ benign = TRUE
  /\ ret = [t \in Threads |-> "idle"]
  /\ now = 0
  /\ dismissed_at = -1

\* the acquisition loop past its readiness wait, on a device with its sensors
InitAcquisition ==
  /\ HAVE_SENSORS = TRUE
  /\ telegram_bot_instance = TRUE
  /\ smoke_detector_instance = TRUE
  /\ sensor_status = "OK"
  /\ elapsed = Saturation
  /\ since_attempt = Saturation
  /\ shutdown_requested = FALSE

\* IAQProcessor.__init__, lines 179-182
InitProcessor ==
  /\ raw_data = EmptyDict
  /\ ewma_baseline = None
  /\ gas_window = << >>
  /\ calculated_data = EmptyDict
  /\ baselines = << >>

\* Buzzer.__init__, lines 60-64 (stop_flag is part of InitAlertEngine)
InitBuzzer ==
  /\ siren_thread = 0
  /\ sirens = << >>
  /\ buzzer_calls = << >>

Init ==
  /\ InitAlertEngine
  /\ clock = StartTime
  /\ pc = [t \in Threads |-> "idle"]
  /\ InitPipeline
  /\ InitAcquisition
  /\ InitProcessor
  /\ InitBuzzer
  /\ csv_rows = EmptyDict

\* the gaps the next sampling cycle may come after
LongGapsSoFar == (clock - StartTime) \div LongGap
Gaps == {ShortGap} \cup (IF LongGapsSoFar < MaxLongGaps THEN {LongGap} ELSE {})

\* The sensors a Sensor object holds are those found when it was constructed, and
\* the loop constructs it once: every reading of a run has the fields of the first.
SensorsOf(d) == DOMAIN d \cap RequiredFields
SensorReadings ==
  IF cycles = 0 THEN RawReadings
  ELSE { raw \in RawReadings : SensorsOf(raw) = SensorsOf(data) }

\* One pass of the acquisition loop with a non-empty reading: process, merge,
\* check_conditions (continuous_sensor_reading, lines 386-394).
SamplingCycle(raws) ==
  /\ cycles < MaxCycles
  /\ \E d \in FinalDataPoints(raws), dt \in Gaps :
       /\ clock' = clock + dt
       /\ data' = d
       /\ benign' = (benign /\ Benign(d))
       /\ Install(check_conditions(Engine, d, clock + dt, user_settings))
  /\ cycles' = cycles + 1
  /\ op' = "check_conditions"
  /\ pre' = Snapshot
  /\ UNCHANGED << daemonVars, pipelineVars, user_settings, calls, raceVars >>

\* POST /api/alert/test
ToggleTest ==
  /\ calls < MaxCalls
  /\ calls' = calls + 1
  /\ Install(toggle_test(Engine, user_settings))
  /\ op' = "toggle_test"
  /\ pre' = Snapshot
  /\ UNCHANGED << daemonVars, pipelineVars, user_settings, clock, cycles, data, benign, raceVars >>

\* POST /api/alert/smoke_dismiss
DismissAlert ==
  /\ calls < MaxCalls
  /\ calls' = calls + 1
  /\ Install(dismiss_alert(Engine, clock))
  /\ op' = "dismiss_alert"
  /\ dismissed_at' = (IF alert_active THEN clock ELSE dismissed_at)
  /\ pre' = Snapshot
  /\ UNCHANGED << acqVars, processorVars, sirenVars, shutdown_requested, csv_rows, pipelineVars, user_settings, clock, cycles, data, benign, raceVars >>

\* POST /api/settings with one of the two switches the alert engine reads
UpdateSettings ==
  /\ calls < MaxCalls
  /\ calls' = calls + 1
  /\ \E k \in {"enableSmokeDetection", "emergencyAlert"} :
       user_settings' = [user_settings EXCEPT ![k] = ~@]
  /\ op' = "update_settings"
  /\ pre' = Snapshot
  /\ queued' = << >>
  /\ trigger_count' = -1
  /\ UNCHANGED << daemonVars, pipelineVars, alert_active, alert_state, test_alert_active, last_alert_time,
                  temp_history, gas_history, stop_flag, siren_alive, clock, cycles,
                  data, smoke_times, benign, raceVars >>

\* Buzzer._siren leaves its loop once stop_flag is set
SirenExit ==
  /\ siren_alive /\ stop_flag
  /\ siren_alive' = FALSE
  /\ UNCHANGED << daemonVars, pipelineVars, alert_active, alert_state, user_settings, test_alert_active,
                  last_alert_time, temp_history, gas_history, stop_flag, clock, cycles,
                  calls, op, pre, data, trigger_count, queued, smoke_times, benign,
                  raceVars >>

\* The alert engine fed complete readings, with the API calls.
Next ==
  \/ SamplingCycle(CompleteReadings)
  \/ ToggleTest
  \/ DismissAlert
  \/ UpdateSettings

Spec == Init /\ [][Next]_vars

\* The acquisition loop with whichever sensors were found at start-up.
NextSensors == SamplingCycle(SensorReadings)

SpecSensors == Init /\ [][NextSensors]_vars

\* check_conditions called with any reading, whichever fields are absent in
\* whichever call: the alert engine's behaviour over all its inputs.
NextEngine == SamplingCycle(RawReadings)

SpecEngine == Init /\ [][NextEngine]_vars

\* ------------------------------------------------------------ SpecVoc
\* The alert engine in a room of steady temperature: the gas resistance holds or
\* drops, the VOC index and the particulates lie below or above their thresholds,
\* each on its own.
VocPoints ==
  { [temperature |-> 20, humidity |-> 40, gas_resistance |-> g, pm25 |-> p,
     voc_index |-> v, iaq |-> 30] :
      g \in {100000, 70000}, p \in {10, 150}, v \in {0, 260} }

\* one pass of the acquisition loop whose final data point is one of VocPoints
\* (continuous_sensor_reading, lines 386-394)
VocCycle ==
  /\ cycles < MaxCycles
  /\ \E d \in VocPoints, dt \in Gaps :
       /\ clock' = clock + dt
       /\ data' = d
       /\ benign' = (benign /\ Benign(d))
       /\ Install(check_conditions(Engine, d, clock + dt, user_settings))
  /\ cycles' = cycles + 1
  /\ op' = "check_conditions"
  /\ pre' = Snapshot
  /\ UNCHANGED << daemonVars, pipelineVars, user_settings, calls, raceVars >>

NextVoc == VocCycle \/ DismissAlert

SpecVoc == Init /\ [][NextVoc]_vars

\* ------------------------------------------------------------ actions of SpecRace
\* The same code run by two threads: each action is one statement (one read or
\* write of the shared globals) of the thread at that line.
RaceReadings ==
  FinalDataPoints({ raw \in CompleteReadings : raw.pm25 > PM_TRIGGER <=> raw.temperature > 20 })

Goto(t, l) == pc' = [pc EXCEPT ![t] = l]
Call(t, l, back) == /\ pc' = [pc EXCEPT ![t] = l]
                    /\ ret' = [ret EXCEPT ![t] = back]

\* the acquisition loop reads the sensor and calls check_conditions (line 394)
A_Begin ==
  /\ pc["acq"] = "idle" /\ cycles < MaxCycles
  /\ \E d \in RaceReadings, dt \in Gaps :
       /\ clock' = clock + dt
       /\ data' = d
  /\ cycles' = cycles + 1
  /\ trigger_count' = -1
  /\ Goto("acq", "L235")
  /\ UNCHANGED << daemonVars, pipelineVars, alert_active, alert_state, user_settings, test_alert_active,
                  last_alert_time, temp_history, gas_history, stop_flag, siren_alive,
                  calls, op, pre, queued, smoke_times, benign, ret, now >>

\* the statements that change nothing but the thread's own position and locals
Local(t) ==
  UNCHANGED << daemonVars, pipelineVars, alert_active, alert_state, user_settings, test_alert_active,
               last_alert_time, temp_history, gas_history, stop_flag, siren_alive,
               clock, cycles, calls, op, pre, data, trigger_count, queued,
               smoke_times, benign >>

\* line 235: if not user_settings.get('enableSmokeDetection')
A_L235 ==
  /\ pc["acq"] = "L235"
  /\ Goto("acq", IF user_settings.enableSmokeDetection THEN "L240" ELSE "L236")
  /\ Local("acq") /\ UNCHANGED << daemonVars, pipelineVars, ret, now >>

\* lines 236-238: if alert_active and alert_state == 'SMOKE': clear_alert; return
A_L236 ==
  /\ pc["acq"] = "L236"
  /\ IF alert_active /\ alert_state = "SMOKE"
     THEN Call("acq", "L306", "done")
     ELSE Goto("acq", "done") /\ UNCHANGED ret
  /\ Local("acq") /\ UNCHANGED now

\* lines 240-242: now = time.time(); if self.test_alert_active
A_L240 ==
  /\ pc["acq"] = "L240"
  /\ now' = clock
  /\ Goto("acq", IF test_alert_active THEN "L243" ELSE "L247")
  /\ Local("acq") /\ UNCHANGED ret

\* line 243: alert_active = True
A_L243 ==
  /\ pc["acq"] = "L243"
  /\ alert_active' = TRUE
  /\ Goto("acq", "L244")
  /\ UNCHANGED << daemonVars, pipelineVars, alert_state, user_settings, test_alert_active, last_alert_time,
                  temp_history, gas_history, stop_flag, siren_alive, clock, cycles,
                  calls, op, pre, data, trigger_count, queued, smoke_times, benign,
                  ret, now >>

\* lines 244-245: alert_state = 'TEST'; return
A_L244 ==
  /\ pc["acq"] = "L244"
  /\ alert_state' = "TEST"
  /\ Goto("acq", "done")
  /\ UNCHANGED << daemonVars, pipelineVars, alert_active, user_settings, test_alert_active, last_alert_time,
                  temp_history, gas_history, stop_flag, siren_alive, clock, cycles,
                  calls, op, pre, data, trigger_count, queued, smoke_times, benign,
                  ret, now >>

\* lines 247-272: the windows and the triggers, all private to the thread
A_L247 ==
  /\ pc["acq"] = "L247"
  /\ temp_history' = deque_append(temp_history, Get(data, "temperature", DEFAULT_TEMP),
                                  TEMP_SPIKE_WINDOW)
  /\ gas_history' = deque_append(gas_history, Get(data, "gas_resistance", DEFAULT_GAS),
                                 TEMP_SPIKE_WINDOW)
  /\ IF Len(temp_history') < TEMP_SPIKE_WINDOW
     THEN Goto("acq", "done") /\ UNCHANGED trigger_count
     ELSE /\ trigger_count' = Len(triggers(data, temp_history', gas_history'))
          /\ Goto("acq", "L274")
  /\ UNCHANGED << daemonVars, pipelineVars, alert_active, alert_state, user_settings, test_alert_active,
                  last_alert_time, stop_flag, siren_alive, clock, cycles, calls, op,
                  pre, data, queued, smoke_times, benign, ret, now >>

\* line 274: if trigger_count >= 2 and (now - self.last_alert_time > self.alert_cooldown)
A_L274 ==
  /\ pc["acq"] = "L274"
  /\ Goto("acq", IF trigger_count >= 2 /\ cooldown_elapsed(now, last_alert_time)
                 THEN "L275" ELSE "L278")
  /\ Local("acq") /\ UNCHANGED << daemonVars, pipelineVars, ret, now >>

\* lines 275-276: if not alert_active: self.trigger_alert("SMOKE", ...)
A_L275 ==
  /\ pc["acq"] = "L275"
  /\ IF ~alert_active
     THEN Call("acq", "L295", "L277")
     ELSE Goto("acq", "L284") /\ UNCHANGED ret
  /\ Local("acq") /\ UNCHANGED now

\* line 277: self.last_alert_time = now
A_L277 ==
  /\ pc["acq"] = "L277"
  /\ last_alert_time' = now
  /\ Goto("acq", "L284")
  /\ UNCHANGED << daemonVars, pipelineVars, alert_active, alert_state, user_settings, test_alert_active,
                  temp_history, gas_history, stop_flag, siren_alive, clock, cycles,
                  calls, op, pre, data, trigger_count, queued, smoke_times, benign,
                  ret, now >>

\* lines 278-282: elif trigger_count == 0 and alert_active: clear a SMOKE or WARNING
A_L278 ==
  /\ pc["acq"] = "L278"
  /\ IF trigger_count = 0 /\ alert_active /\ alert_state \in {"SMOKE", "WARNING"}
     THEN Call("acq", "L306", "L284")
     ELSE Goto("acq", "L284") /\ UNCHANGED ret
  /\ Local("acq") /\ UNCHANGED now

\* lines 284-289: the conditions of the IAQ warning
A_L284 ==
  /\ pc["acq"] = "L284"
  /\ Goto("acq",
          IF ~alert_active /\ Get(data, "iaq", 0) > user_settings.alertThreshold
          THEN "L287"
          ELSE IF ~alert_active /\ alert_state = "WARNING"
                  /\ Get(data, "iaq", 0) < user_settings.alertThreshold
               THEN "L289" ELSE "done")
  /\ Local("acq") /\ UNCHANGED << daemonVars, pipelineVars, ret, now >>

\* lines 285-287: alert_state = 'WARNING'; line 289: alert_state = 'SAFE'
A_L287 ==
  /\ pc["acq"] \in {"L287", "L289"}
  /\ alert_state' = (IF pc["acq"] = "L287" THEN "WARNING" ELSE "SAFE")
  /\ Goto("acq", "done")
  /\ UNCHANGED << daemonVars, pipelineVars, alert_active, user_settings, test_alert_active, last_alert_time,
                  temp_history, gas_history, stop_flag, siren_alive, clock, cycles,
                  calls, op, pre, data, trigger_count, queued, smoke_times, benign,
                  ret, now >>

\* check_conditions returns to the acquisition loop
A_Done ==
  /\ pc["acq"] = "done"
  /\ Goto("acq", "idle")
  /\ Local("acq") /\ UNCHANGED << daemonVars, pipelineVars, ret, now >>

\* trigger_alert, line 295: alert_active = True
L295(t) ==
  /\ pc[t] = "L295"
  /\ alert_active' = TRUE
  /\ Goto(t, "L296")
  /\ UNCHANGED << daemonVars, pipelineVars, alert_state, user_settings, test_alert_active, last_alert_time,
                  temp_history, gas_history, stop_flag, siren_alive, clock, cycles,
                  calls, op, pre, data, trigger_count, queued, smoke_times, benign,
                  ret, now >>

\* trigger_alert, line 296: alert_state = state ("SMOKE" from check_conditions,
\* "TEST" from toggle_test)
L296(t) ==
  /\ pc[t] = "L296"
  /\ alert_state' = (IF t = "acq" THEN "SMOKE" ELSE "TEST")
  /\ smoke_times' = (IF t = "acq" THEN Append(smoke_times, now) ELSE smoke_times)
  /\ Goto(t, "L298")
  /\ UNCHANGED << daemonVars, pipelineVars, alert_active, user_settings, test_alert_active, last_alert_time,
                  temp_history, gas_history, stop_flag, siren_alive, clock, cycles,
                  calls, op, pre, data, trigger_count, queued, benign, ret, now >>

\* trigger_alert, lines 297-301: queue the alert message, start the siren
L298(t) ==
  /\ pc[t] = "L298"
  /\ IF user_settings.emergencyAlert \/ t = "api"
     THEN stop_flag' = FALSE /\ siren_alive' = TRUE
     ELSE UNCHANGED << daemonVars, pipelineVars, stop_flag, siren_alive >>
  /\ Goto(t, ret[t])
  /\ UNCHANGED << daemonVars, pipelineVars, alert_active, alert_state, user_settings, test_alert_active,
                  last_alert_time, temp_history, gas_history, clock, cycles, calls, op,
                  pre, data, trigger_count, queued, smoke_times, benign, ret, now >>

\* clear_alert, line 306: alert_active = False
L306(t) ==
  /\ pc[t] = "L306"
  /\ alert_active' = FALSE
  /\ Goto(t, "L307")
  /\ UNCHANGED << daemonVars, pipelineVars, alert_state, user_settings, test_alert_active, last_alert_time,
                  temp_history, gas_history, stop_flag, siren_alive, clock, cycles,
                  calls, op, pre, data, trigger_count, queued, smoke_times, benign,
                  ret, now >>

\* clear_alert, line 307: alert_state = "SAFE"
L307(t) ==
  /\ pc[t] = "L307"
  /\ alert_state' = "SAFE"
  /\ Goto(t, "L308")
  /\ UNCHANGED << daemonVars, pipelineVars, alert_active, user_settings, test_alert_active, last_alert_time,
                  temp_history, gas_history, stop_flag, siren_alive, clock, cycles,
                  calls, op, pre, data, trigger_count, queued, smoke_times, benign,
                  ret, now >>

\* clear_alert, lines 308-310: queue the recovery message, stop the siren
L308(t) ==
  /\ pc[t] = "L308"
  /\ stop_flag' = TRUE
  /\ Goto(t, ret[t])
  /\ UNCHANGED << daemonVars, pipelineVars, alert_active, alert_state, user_settings, test_alert_active,
                  last_alert_time, temp_history, gas_history, siren_alive, clock,
                  cycles, calls, op, pre, data, trigger_count, queued, smoke_times,
                  benign, ret, now >>

\* POST /api/alert/test: toggle_test, lines 322-323 and 327
T_Begin ==
  /\ pc["api"] = "idle" /\ calls < MaxCalls
  /\ calls' = calls + 1
  /\ test_alert_active' = ~test_alert_active
  /\ IF test_alert_active
     THEN Call("api", "L306", "idle")
     ELSE Call("api", "L295", "idle")
  /\ UNCHANGED << daemonVars, pipelineVars, alert_active, alert_state, user_settings, last_alert_time,
                  temp_history, gas_history, stop_flag, siren_alive, clock, cycles,
                  op, pre, data, trigger_count, queued, smoke_times, benign, now >>

\* POST /api/alert/smoke_dismiss: dismiss_alert, lines 313-314
D_Begin ==
  /\ pc["api"] = "idle" /\ calls < MaxCalls
  /\ calls' = calls + 1
  /\ Goto("api", IF alert_active THEN "L317" ELSE "idle")
  /\ UNCHANGED << daemonVars, pipelineVars, alert_active, alert_state, user_settings, test_alert_active,
                  last_alert_time, temp_history, gas_history, stop_flag, siren_alive,
                  clock, cycles, op, pre, data, trigger_count, queued, smoke_times,
                  benign, ret, now >>

\* dismiss_alert, lines 317-318: self.last_alert_time = time.time(); clear_alert
D_L317 ==
  /\ pc["api"] = "L317"
  /\ last_alert_time' = clock
  /\ dismissed_at' = clock
  /\ Call("api", "L306", "idle")
  /\ UNCHANGED << acqVars, processorVars, sirenVars, shutdown_requested, csv_rows, pipelineVars, alert_active, alert_state, user_settings, test_alert_active,
                  temp_history, gas_history, stop_flag, siren_alive, clock, cycles,
                  calls, op, pre, data, trigger_count, queued, smoke_times, benign,
                  now >>

\* POST /api/settings
R_UpdateSettings ==
  /\ pc["api"] = "idle" /\ calls < MaxCalls
  /\ calls' = calls + 1
  /\ \E k \in {"enableSmokeDetection", "emergencyAlert"} :
       user_settings' = [user_settings EXCEPT ![k] = ~@]
  /\ UNCHANGED << daemonVars, pipelineVars, alert_active, alert_state, test_alert_active, last_alert_time,
                  temp_history, gas_history, stop_flag, siren_alive, clock, cycles,
                  op, pre, data, trigger_count, queued, smoke_times, benign, raceVars >>

NextRace ==
  \/ A_Begin \/ A_L235 \/ A_L236 \/ A_L240 \/ A_L243 \/ A_L244 \/ A_L247
  \/ A_L274 \/ A_L275 \/ A_L277 \/ A_L278 \/ A_L284 \/ A_L287 \/ A_Done
  \/ T_Begin \/ D_Begin \/ D_L317
  \/ \E t \in Threads : L295(t) \/ L296(t) \/ L298(t) \/ L306(t) \/ L307(t) \/ L308(t)
  \/ R_UpdateSettings
  \/ SirenExit

SpecRace == Init /\ [][NextRace]_vars

\* ------------------------------------------------------------ actions of SpecStore
\* The three loops of the daemon, each on its thread, around the shared store:
\* every action is one step of one loop, and data_lock is held from the step that
\* enters a `with data_lock:` block to the step that leaves it.
engineVars == << alert_active, alert_state, test_alert_active, last_alert_time,
                 temp_history, gas_history, stop_flag, siren_alive, op, pre, data,
                 trigger_count, queued, smoke_times, benign >>

\* the readings of a quiet room: no trigger, iaq below or above the threshold
StorePoints ==
  FinalDataPoints({ raw \in CompleteReadings :
                      raw.pm25 <= PM_TRIGGER /\ raw.temperature = 20 })

\* continuous_sensor_reading, lines 386-397: read the sensors, process, merge with
\* the timestamp, check_conditions, stamp alert_active and state on the data point
S_L386 ==
  /\ pc["acq"] = "idle" /\ cycles < MaxAppends
  /\ \E d \in StorePoints, dt \in Gaps :
       LET s == check_conditions(Engine, d, clock + dt, user_settings) IN
       /\ clock' = clock + dt
       /\ data' = d
       /\ benign' = (benign /\ Benign(d))
       /\ Install(s)
       /\ point' = Stamp(clock + dt, s.alert_active, s.alert_state)
  /\ cycles' = cycles + 1
  /\ op' = "check_conditions"
  /\ pre' = Snapshot
  /\ Goto("acq", "L402")
  /\ UNCHANGED << daemonVars, user_settings, calls, ret, now, latest_sensor_data, history_buffer,
                  data_lock, appended, writerVars, retentionVars >>

\* `with data_lock:` entered by thread t, which goes on at line l
Acquire(t, l) ==
  /\ data_lock = "free"
  /\ data_lock' = t
  /\ Goto(t, l)

\* line 402: with data_lock
S_L402 ==
  /\ pc["acq"] = "L402"
  /\ Acquire("acq", "L403")
  /\ UNCHANGED << daemonVars, engineVars, user_settings, clock, cycles, calls, ret, now,
                  latest_sensor_data, history_buffer, point, appended, writerVars,
                  retentionVars >>

\* line 403 with the block ending after it, before the append
S_L403_unlocked ==
  /\ pc["acq"] = "L403"
  /\ latest_sensor_data' = point
  /\ data_lock' = "free"
  /\ Goto("acq", "L404")
  /\ UNCHANGED << daemonVars, engineVars, user_settings, clock, cycles, calls, ret, now,
                  history_buffer, point, appended, writerVars, retentionVars >>

\* line 403: latest_sensor_data = final_data_point
S_L403 ==
  /\ pc["acq"] = "L403"
  /\ latest_sensor_data' = point
  /\ Goto("acq", "L404")
  /\ UNCHANGED << daemonVars, engineVars, user_settings, clock, cycles, calls, ret, now,
                  history_buffer, data_lock, point, appended, writerVars,
                  retentionVars >>

\* line 404: history_buffer.append(final_data_point), and the block ends
S_L404 ==
  /\ pc["acq"] = "L404"
  /\ history_buffer' = history_append(history_buffer, point)
  /\ appended' = Append(appended, point)
  /\ data_lock' = "free"
  /\ Goto("acq", "idle")
  /\ UNCHANGED << daemonVars, engineVars, user_settings, clock, cycles, calls, ret, now,
                  latest_sensor_data, point, writerVars, retentionVars >>

\* periodic_csv_writer, lines 422-426: a minute has passed since the last check
\* (until then the loop sleeps a second and looks again)
W_L422 ==
  /\ pc["writer"] = "idle"
  /\ clock - last_check_time >= CSV_WRITE_INTERVAL
  /\ last_check_time' = clock
  /\ Goto("writer", "L429")
  /\ UNCHANGED << daemonVars, engineVars, user_settings, clock, cycles, calls, ret, now, storeVars,
                  partition, buffer_copy, flushed, restarts, retentionVars >>

\* line 429: with data_lock
W_L429 ==
  /\ pc["writer"] = "L429"
  /\ Acquire("writer", "L430")
  /\ UNCHANGED << daemonVars, engineVars, user_settings, clock, cycles, calls, ret, now,
                  latest_sensor_data, history_buffer, point, appended, writerVars,
                  retentionVars >>

\* lines 430-433 with a `continue` that keeps the lock
W_L430_keeps_lock ==
  /\ pc["writer"] = "L430"
  /\ IF ~Get(user_settings, "loggingEnabled", TRUE) \/ history_buffer = << >>
     THEN Goto("writer", "idle")
     ELSE Goto("writer", "L435")
  /\ UNCHANGED << daemonVars, engineVars, user_settings, clock, cycles, calls, ret, now, storeVars,
                  writerVars, retentionVars >>

\* lines 430-433: logging disabled or history empty: `continue` leaves the block
W_L430 ==
  /\ pc["writer"] = "L430"
  /\ IF ~Get(user_settings, "loggingEnabled", TRUE) \/ history_buffer = << >>
     THEN data_lock' = "free" /\ Goto("writer", "idle")
     ELSE data_lock' = data_lock /\ Goto("writer", "L435")
  /\ UNCHANGED << daemonVars, engineVars, user_settings, clock, cycles, calls, ret, now,
                  latest_sensor_data, history_buffer, point, appended, writerVars,
                  retentionVars >>

\* line 435: buffer_copy = list(history_buffer), and the block ends
W_L435 ==
  /\ pc["writer"] = "L435"
  /\ buffer_copy' = history_buffer
  /\ history_buffer' = history_after_copy(history_buffer)
  /\ data_lock' = "free"
  /\ Goto("writer", "L439")
  /\ UNCHANGED << daemonVars, engineVars, user_settings, clock, cycles, calls, ret, now,
                  latest_sensor_data, point, appended, partition, last_check_time,
                  flushed, restarts, retentionVars >>

\* lines 437-477: keep today's entries, resample and overwrite today's file;
\* nothing is written when the copy holds no entry of today
W_L439 ==
  /\ pc["writer"] = "L439"
  /\ LET day == local_day(clock)
         rows == rows_of_today(buffer_copy, clock)
     IN partition' = IF rows = {} THEN partition
                     ELSE [d \in DOMAIN partition \cup {day} |->
                             IF d = day THEN rows ELSE partition[d]]
  /\ Goto("writer", "idle")
  /\ UNCHANGED << daemonVars, engineVars, user_settings, clock, cycles, calls, ret, now, storeVars,
                  buffer_copy, last_check_time, flushed, restarts, retentionVars >>

\* The process is stopped and started again: the module's globals and every
\* thread's locals start afresh, the disk and the wall clock go on (user_settings
\* holds the defaults of lines 45-52 throughout SpecStore).
Restart ==
  /\ restarts < MaxRestarts
  /\ restarts' = restarts + 1
  /\ flushed' = partition
  /\ alert_active' = FALSE
  /\ alert_state' = "SAFE"
  /\ test_alert_active' = FALSE
  /\ last_alert_time' = 0
  /\ temp_history' = << >>
  /\ gas_history' = << >>
  /\ stop_flag' = FALSE
  /\ siren_alive' = FALSE
  /\ op' = "init"
  /\ pre' = [alert_state |-> "SAFE", alert_active |-> FALSE, last_alert_time |-> 0]
  /\ data' = EmptyDict
  /\ trigger_count' = -1
  /\ queued' = << "info" >>
  /\ smoke_times' = << >>
  /\ benign' = TRUE
  /\ pc' = [t \in Threads |-> "idle"]
  /\ ret' = [t \in Threads |-> "idle"]
  /\ now' = 0
  /\ latest_sensor_data' = EmptyDict
  /\ history_buffer' = << >>
  /\ data_lock' = "free"
  /\ point' = EmptyDict
  /\ appended' = << >>
  /\ buffer_copy' = << >>
  /\ last_check_time' = 0
  /\ retention_period' = << >>
  /\ run_manual' = FALSE
  /\ days' = -1
  /\ UNCHANGED << daemonVars, user_settings, clock, cycles, calls, partition, log_files, today,
                  deleted, passes, requests >>

\* ------------------------------------------------------------ actions of SpecRetention
\* auto_maintenance_worker on its thread, and the settings calls that steer it.
\* a dict without key k: user_settings.pop(k, ...)
Without(d, k) == [x \in DOMAIN d \ {k} |-> d[x]]
\* a dict with d[k] = v
With(d, k, v) == [x \in DOMAIN d \cup {k} |-> IF x = k THEN v ELSE d[x]]

\* lines 484-487: the loop starts a round and enters `with data_lock:`
M_L487 ==
  /\ pc["maint"] = "idle"
  /\ Acquire("maint", "L488")
  /\ UNCHANGED << daemonVars, engineVars, user_settings, clock, cycles, calls, ret, now,
                  latest_sensor_data, history_buffer, point, appended, writerVars,
                  retentionVars >>

\* line 488: retention_period = user_settings.get('logRetentionPeriod', '90d')
M_L488 ==
  /\ pc["maint"] = "L488"
  /\ retention_period' = Get(user_settings, "logRetentionPeriod", << "9", "0", "d" >>)
  /\ Goto("maint", "L489")
  /\ UNCHANGED << daemonVars, engineVars, user_settings, clock, cycles, calls, ret, now, storeVars,
                  writerVars, log_files, today, run_manual, days, deleted, passes,
                  requests >>

\* line 489: run_manual = user_settings.pop('run_manual_cleanup', False), and the
\* block ends
M_L489 ==
  /\ pc["maint"] = "L489"
  /\ run_manual' = Get(user_settings, "run_manual_cleanup", FALSE)
  /\ user_settings' = Without(user_settings, "run_manual_cleanup")
  /\ data_lock' = "free"
  /\ Goto("maint", "L491")
  /\ UNCHANGED << daemonVars, engineVars, clock, cycles, calls, ret, now, latest_sensor_data,
                  history_buffer, point, appended, writerVars, log_files, today,
                  retention_period, days, deleted, passes, requests >>

\* lines 491-497: skip the pass when retention is "forever" and no manual run is asked
M_L491 ==
  /\ pc["maint"] = "L491"
  /\ Goto("maint", IF retention_period = Forever /\ ~run_manual THEN "L493" ELSE "L499")
  /\ UNCHANGED << daemonVars, engineVars, user_settings, clock, cycles, calls, ret, now, storeVars,
                  writerVars, retentionVars >>

\* a day of sleep is over and the loop starts its next round
DayLater ==
  /\ today - StartDay < MaxDays
  /\ today' = today + 1
  /\ Goto("maint", "idle")
  /\ UNCHANGED << daemonVars, engineVars, user_settings, clock, cycles, calls, ret, now, storeVars,
                  writerVars, log_files, retention_period, run_manual, days, deleted,
                  passes, requests >>

\* lines 493-494: time.sleep(3600 * 24); continue
M_L493 == pc["maint"] = "L493" /\ DayLater

\* The end of a round lies beyond the end of src/iaqcalc.py: the worker runs once
\* per day (specification, 4.6), so a pass is followed by a day of sleep as well.
M_L525 == pc["maint"] = "L525" /\ DayLater

\* lines 499-524: the pass. days from the retention string, the cutoff, the walk
\* over LOG_DIR removing the files dated before the cutoff
M_L499 ==
  /\ pc["maint"] = "L499"
  /\ days' = retention_days(retention_period)
  /\ deleted' = files_to_delete(log_files, today, days')
  /\ log_files' = log_files \ deleted'
  /\ passes' = [total |-> passes.total + 1,
                manual |-> passes.manual + (IF run_manual THEN 1 ELSE 0)]
  /\ Goto("maint", "L525")
  /\ UNCHANGED << daemonVars, engineVars, user_settings, clock, cycles, calls, ret, now, storeVars,
                  writerVars, today, retention_period, run_manual, requests >>

\* POST /api/settings with a logRetentionPeriod
SetRetention ==
  /\ calls < MaxCalls
  /\ calls' = calls + 1
  /\ \E v \in RetentionStrings :
       user_settings' = [user_settings EXCEPT !.logRetentionPeriod = v]
  /\ UNCHANGED << daemonVars, engineVars, clock, cycles, ret, now, pc, pipelineVars >>

\* a manual cleanup is requested: the flag run_manual_cleanup is set in user_settings
RequestCleanup ==
  /\ requests < MaxRequests
  /\ requests' = requests + 1
  /\ user_settings' = With(user_settings, "run_manual_cleanup", TRUE)
  /\ UNCHANGED << daemonVars, engineVars, clock, cycles, calls, ret, now, pc, storeVars, writerVars,
                  log_files, today, retention_period, run_manual, days, deleted, passes >>

NextRetention ==
  \/ M_L487 \/ M_L488 \/ M_L489 \/ M_L491 \/ M_L493 \/ M_L499 \/ M_L525
  \/ SetRetention \/ RequestCleanup

SpecRetention == Init /\ [][NextRetention]_vars

\* ------------------------------------------------------------ SpecStore
\* The acquisition loop and the persistence writer side by side, with process
\* restarts.
NextStore ==
  \/ S_L386 \/ S_L402 \/ S_L403 \/ S_L404
  \/ W_L422 \/ W_L429 \/ W_L430 \/ W_L435 \/ W_L439
  \/ Restart

SpecStore == Init /\ [][NextStore]_vars

\* ------------------------------------------------------------ SpecLoops
\* The acquisition loop, the persistence writer and the retention worker side by
\* side, without restarts and with the settings left at their defaults (so the
\* worker never takes the "forever" branch of line 493: that is in SpecRetention).
NextLoops ==
  \/ S_L386 \/ S_L402 \/ S_L403 \/ S_L404
  \/ W_L422 \/ W_L429 \/ W_L430 \/ W_L435 \/ W_L439
  \/ M_L487 \/ M_L488 \/ M_L489 \/ M_L491 \/ M_L499 \/ M_L525

SpecLoops == Init /\ [][NextLoops]_vars

\* A thread inside a `with data_lock:` block is running, not waiting: it takes
\* its next step.
FairSpecLoops ==
  /\ SpecLoops
  /\ WF_vars(S_L403) /\ WF_vars(S_L404)
  /\ WF_vars(W_L430) /\ WF_vars(W_L435)
  /\ WF_vars(M_L488) /\ WF_vars(M_L489)

\* ------------------------------------------------------------ SpecPublish
\* The stamping and publication of the data point at statement level: when
\* check_conditions has returned, the acquisition thread reads the two alert
\* globals one after the other (lines 396-397) and publishes the data point under
\* data_lock, while the API thread runs toggle_test / dismiss_alert (which do not
\* take data_lock).

\* lines 386-394: read the sensors, process, merge, check_conditions
P_L386 ==
  /\ pc["acq"] = "idle" /\ cycles < MaxAppends
  /\ \E d \in StorePoints, dt \in Gaps :
       /\ clock' = clock + dt
       /\ data' = d
       /\ benign' = (benign /\ Benign(d))
       /\ Install(check_conditions(Engine, d, clock + dt, user_settings))
  /\ cycles' = cycles + 1
  /\ op' = "check_conditions"
  /\ pre' = Snapshot
  /\ Goto("acq", "done")
  /\ UNCHANGED << daemonVars, user_settings, calls, ret, now, pipelineVars >>

\* line 396: final_data_point['alert_active'] = alert_active
A_L396 ==
  /\ pc["acq"] = "done"
  /\ point' = [timestamp |-> clock, alert_active |-> alert_active]
  /\ Goto("acq", "L397")
  /\ UNCHANGED << daemonVars, engineVars, user_settings, clock, cycles, calls, ret, now,
                  latest_sensor_data, history_buffer, data_lock, appended, writerVars,
                  retentionVars >>

\* line 397: final_data_point['state'] = alert_state (lines 398-399 add the level
\* labels, which no other thread writes)
A_L397 ==
  /\ pc["acq"] = "L397"
  /\ point' = Stamp(point.timestamp, point.alert_active, alert_state)
  /\ Goto("acq", "L402")
  /\ UNCHANGED << daemonVars, engineVars, user_settings, clock, cycles, calls, ret, now,
                  latest_sensor_data, history_buffer, data_lock, appended, writerVars,
                  retentionVars >>

NextPublish ==
  \/ P_L386 \/ A_L396 \/ A_L397 \/ S_L402 \/ S_L403 \/ S_L404
  \/ T_Begin \/ D_Begin \/ D_L317
  \/ \E t \in {"api"} : L295(t) \/ L296(t) \/ L298(t) \/ L306(t) \/ L307(t) \/ L308(t)

SpecPublish == Init /\ [][NextPublish]_vars

\* ------------------------------------------------------------ SpecProcessor
\* One IAQProcessor fed readings one after the other, as the acquisition loop
\* does at line 390.

\* everything but the processor
restOfProcessor == << engineVars, user_settings, clock, cycles, calls, pc, ret, now,
                      pipelineVars, acqVars, sirenVars, shutdown_requested, csv_rows,
                      dismissed_at >>

\* gas resistance in kilo-ohms: below and above the clip, and a falling series
GasValues == {5, 60, 80, 100, 600}
\* PM2.5 in hundredths: negative, the ends of brackets, between two brackets,
\* inside a bracket, the top of the table and beyond it
PmValues == {-100, 0, 1200, 1205, 3540, 5000, 50000, 50040, 60000}

ProcessorReadings ==
  { [gas_resistance |-> g, pm25 |-> p, temperature |-> 20, humidity |-> 40] :
      g \in GasValues, p \in PmValues }
  \cup { [gas_resistance |-> g, pm25 |-> 60000, temperature |-> 85, humidity |-> 100] :
           g \in GasValues }
  \cup { [gas_resistance |-> g, pm25 |-> 0, temperature |-> -40, humidity |-> 0] :
           g \in GasValues }
  \cup { [pm25 |-> 1000] }

\* line 390: calculated_data = processor.process(raw_data)
Process ==
  /\ Len(baselines) < MaxSamples
  /\ \E raw \in ProcessorReadings :
       LET r == process([ewma_baseline |-> ewma_baseline, gas_window |-> gas_window], raw)
       IN /\ raw_data' = raw
          /\ ewma_baseline' = r.p.ewma_baseline
          /\ gas_window' = r.p.gas_window
          /\ calculated_data' = r.result
          /\ baselines' = IF r.result = EmptyDict THEN baselines
                          ELSE Append(baselines, r.p.ewma_baseline)
  /\ UNCHANGED restOfProcessor

NextProcessor == Process

SpecProcessor == Init /\ [][NextProcessor]_vars

\* ------------------------------------------------------------ SpecResample
\* periodic_csv_writer, lines 439-476, as a function of the snapshot it copied and
\* of the time it runs at. A sample's values are exact fractions.

\* line 464-469: the logged fields carried by the samples below, each with the
\* number of decimals it is rounded to
rounding_precision == [iaq |-> 0, temperature |-> 1]
params_to_log == DOMAIN rounding_precision

RECURSIVE Pow10(_)
Pow10(k) == IF k = 0 THEN 1 ELSE 10 * Pow10(k - 1)

\* DataFrame.round: to the given number of decimals, a tie to the even digit
round_to(x, decimals) == Frac(round(FMul(x, Whole(Pow10(decimals)))), Pow10(decimals))

RECURSIVE FSum(_)
FSum(q) == IF q = << >> THEN Whole(0) ELSE FAdd(Head(q), FSum(Tail(q)))

\* lines 443-444: the entries of the snapshot dated today
df_today(copy, t) ==
  LET IsToday(e) == local_day(e.timestamp) = local_day(t) IN SelectSeq(copy, IsToday)

\* resample("30s") lays a grid from the first entry's bucket to the last one's
grid(entries) ==
  IF entries = << >> THEN {}
  ELSE bucket(entries[1].timestamp)..bucket(entries[Len(entries)].timestamp)

\* .mean(numeric_only=True) of one bucket: the mean of each field over the
\* entries that carry it; a field no entry carries is NaN (absent here)
bucket_mean(entries, b) ==
  LET InBucket(e) == bucket(e.timestamp) = b
      members == SelectSeq(entries, InBucket)
      Values(k) == LET Has(e) == k \in DOMAIN e
                       having == SelectSeq(members, Has)
                   IN [i \in 1..Len(having) |-> having[i][k]]
      present == { k \in params_to_log : Values(k) # << >> }
  IN [k \in present |-> FMul(FSum(Values(k)), Frac(1, Len(Values(k))))]

\* a frame written with its all-NaN rows
dropna_keeps_all(rows) == rows

\* line 476: dropna(how='all') removes the rows in which every field is NaN
dropna(rows) ==
  LET kept == { b \in DOMAIN rows : DOMAIN rows[b] # {} } IN [b \in kept |-> rows[b]]

\* lines 454-476: the rows of today's file
resample(copy, t) ==
  LET entries == df_today(copy, t)
      downsampled == [b \in grid(entries) |-> bucket_mean(entries, b)]
      final == [b \in DOMAIN downsampled |->
                  [k \in DOMAIN downsampled[b] |->
                     round_to(downsampled[b][k], rounding_precision[k])]]
  IN dropna(final)

\* entries of history_buffer per snapshot
MaxSnapshot == 3
\* the writer runs a little after local midnight (00:00 at UTC+5:30 is 66600 s
\* after the epoch day began), so that the snapshot straddles two days
WriteTime == 66700

Tenths(x) == Frac(x, 10)
Sample(ts, iaq, tenths) ==
  [timestamp |-> ts, iaq |-> Whole(iaq), temperature |-> Tenths(tenths)]

\* two samples of yesterday, three in today's first bucket, none in the second
\* and third, two in the fourth
SampleSeries ==
  << Sample(66560, 40, 200), Sample(66590, 60, 210), Sample(66600, 30, 203),
     Sample(66610, 33, 204), Sample(66625, 34, 204), Sample(66690, 200, 250),
     Sample(66695, 201, 251) >>

RECURSIVE Pick(_, _)
\* the entries of q at the positions in picks, in the order of q
Pick(q, picks) ==
  IF q = << >> THEN << >>
  ELSE LET rest == Pick(Tail(q), { i - 1 : i \in picks \ {1} })
       IN IF 1 \in picks THEN << Head(q) >> \o rest ELSE rest

Snapshots ==
  { Pick(SampleSeries, picks) :
      picks \in { c \in SUBSET (1..Len(SampleSeries)) :
                    Cardinality(c) \in 1..MaxSnapshot } }

InitResample ==
  /\ InitAlertEngine
  /\ clock = WriteTime
  /\ pc = [t \in Threads |-> IF t = "writer" THEN "L439" ELSE "idle"]
  /\ latest_sensor_data = EmptyDict
  /\ history_buffer = << >>
  /\ data_lock = "free"
  /\ point = EmptyDict
  /\ appended = << >>
  /\ partition = EmptyDict
  /\ buffer_copy \in Snapshots
  /\ last_check_time = WriteTime
  /\ flushed = EmptyDict
  /\ restarts = 0
  /\ log_files = LogFiles
  /\ today = StartDay
  /\ retention_period = << >>
  /\ run_manual = FALSE
  /\ days = -1
  /\ deleted = {}
  /\ passes = [total |-> 0, manual |-> 0]
  /\ requests = 0
  /\ InitAcquisition
  /\ InitProcessor
  /\ InitBuzzer
  /\ csv_rows = EmptyDict

\* lines 439-477 on the snapshot: the day's file is overwritten with the rows
W_L476 ==
  /\ pc["writer"] = "L439"
  /\ csv_rows' = resample(buffer_copy, clock)
  /\ Goto("writer", "idle")
  /\ UNCHANGED << engineVars, user_settings, clock, cycles, calls, ret, now, pipelineVars,
                  acqVars, processorVars, sirenVars, shutdown_requested, dismissed_at >>

NextResample == W_L476

SpecResample == InitResample /\ [][NextResample]_vars

\* ------------------------------------------------------------ SpecSiren
\* Buzzer.start_alert and Buzzer.stop_alert called from the acquisition thread and
\* from an API thread (through trigger_alert and clear_alert), one statement per
\* step, with the BuzzerSiren threads they start. is_setup holds. A siren thread is
\* "new" between its creation and its start, at "L80" while it sounds, at "L88"
\* once it has seen stop_flag set and left its loop, then "dead".

restOfSiren == << alert_active, alert_state, user_settings, test_alert_active,
                  last_alert_time, temp_history, gas_history, siren_alive, clock, cycles,
                  op, pre, data, trigger_count, queued, smoke_times, benign, ret, now,
                  pipelineVars, acqVars, processorVars, shutdown_requested, csv_rows,
                  dismissed_at >>

Callers == {"acq", "api"}

\* Thread.is_alive(): from start() until the target returns
is_alive(i) == sirens[i] \in {"L80", "L88"}

Returned(t, kind) ==
  /\ buzzer_calls' = Append(buzzer_calls, kind)
  /\ Goto(t, "idle")

\* a thread calls buzzer.start_alert() (line 301)
B_Start(t) ==
  /\ pc[t] = "idle" /\ calls < MaxBuzzerCalls
  /\ calls' = calls + 1
  /\ Goto(t, "L95")
  /\ UNCHANGED << restOfSiren, stop_flag, sirenVars >>

\* line 95: self.stop_flag.clear()
B_L95(t) ==
  /\ pc[t] = "L95"
  /\ stop_flag' = FALSE
  /\ Goto(t, "L96")
  /\ UNCHANGED << restOfSiren, calls, sirenVars >>

\* line 96: if not self.siren_thread or not self.siren_thread.is_alive()
B_L96(t) ==
  /\ pc[t] = "L96"
  /\ IF siren_thread = 0 \/ ~is_alive(siren_thread)
     THEN Goto(t, "L97") /\ UNCHANGED buzzer_calls
     ELSE Returned(t, "start")
  /\ UNCHANGED << restOfSiren, calls, stop_flag, siren_thread, sirens >>

\* line 97: self.siren_thread = threading.Thread(target=self._siren, ...)
B_L97(t) ==
  /\ pc[t] = "L97"
  /\ sirens' = Append(sirens, "new")
  /\ siren_thread' = Len(sirens) + 1
  /\ Goto(t, "L98")
  /\ UNCHANGED << restOfSiren, calls, stop_flag, buzzer_calls >>

\* line 98: self.siren_thread.start(), on whichever thread the field now refers
\* to; starting a thread a second time raises RuntimeError in the caller
B_L98(t) ==
  /\ pc[t] = "L98"
  /\ IF sirens[siren_thread] = "new"
     THEN /\ sirens' = [sirens EXCEPT ![siren_thread] = "L80"]
          /\ Returned(t, "start")
     ELSE /\ UNCHANGED sirens
          /\ Returned(t, "RuntimeError")
  /\ UNCHANGED << restOfSiren, calls, stop_flag, siren_thread >>

\* buzzer.stop_alert() (line 310), line 103: self.stop_flag.set()
B_Stop(t) ==
  /\ pc[t] = "idle" /\ calls < MaxBuzzerCalls
  /\ calls' = calls + 1
  /\ stop_flag' = TRUE
  /\ buzzer_calls' = Append(buzzer_calls, "stop")
  /\ UNCHANGED << restOfSiren, pc, siren_thread, sirens >>

\* _siren, lines 80-86: the thread finds stop_flag set and leaves its loop
R_L80(i) ==
  /\ sirens[i] = "L80" /\ stop_flag
  /\ sirens' = [sirens EXCEPT ![i] = "L88"]
  /\ UNCHANGED << restOfSiren, pc, calls, stop_flag, siren_thread, buzzer_calls >>

\* _siren, lines 88-89: pwm.stop(), and the thread ends
R_L88(i) ==
  /\ sirens[i] = "L88"
  /\ sirens' = [sirens EXCEPT ![i] = "dead"]
  /\ UNCHANGED << restOfSiren, pc, calls, stop_flag, siren_thread, buzzer_calls >>

NextSiren ==
  \/ \E t \in Callers : B_Start(t) \/ B_L95(t) \/ B_L96(t) \/ B_L97(t) \/ B_L98(t)
                        \/ B_Stop(t)
  \/ \E i \in DOMAIN sirens : R_L80(i) \/ R_L88(i)

SpecSiren == Init /\ [][NextSiren]_vars

\* ------------------------------------------------------------ SpecAcq
\* continuous_sensor_reading from the start of its thread, one step per statement
\* that reads the clock, sleeps, reads the sensors or writes a global. Time is
\* counted in ticks and passes in the sleeps and in the sensor read; `elapsed` is
\* time.time() - last_read_time, held at Saturation once it reaches it (after
\* line 377, last_read_time = 0, it is the whole epoch). What check_conditions
\* does to the alert engine is in Spec; here the cycle returns or raises.

restOfAcq == << engineVars, user_settings, clock, cycles, calls, ret, now, data_lock,
                appended, writerVars, retentionVars, ewma_baseline, gas_window,
                calculated_data, baselines, sirenVars, shutdown_requested, csv_rows,
                dismissed_at >>

\* get_data returned None (lines 169-176)
NoneData == [None |-> TRUE]
\* `if raw_data:` a dict with at least one key
truthy(raw) == raw # NoneData /\ raw # EmptyDict

\* how long a call of sensor.get_data() takes, in seconds: at once, or held up
\* by the PMSA003's serial read
ReadSeconds == {0, 3}

Later(x, ticks) == IF x + ticks > Saturation THEN Saturation ELSE x + ticks
Advance(ticks) ==
  /\ elapsed' = Later(elapsed, ticks)
  /\ since_attempt' = Later(since_attempt, ticks)

\* a gate that is always open
read_gate_always(e) == TRUE

\* lines 380-382: not ((now - last_read_time) < SENSOR_READ_INTERVAL)
read_gate(e) == ~(e < SENSOR_READ_INTERVAL * TicksPerSecond)

\* lines 363-366 without the test of HAVE_SENSORS
A_L363_ignores_flag ==
  /\ pc["acq"] = "L361"
  /\ Goto("acq", "L368")
  /\ UNCHANGED << restOfAcq, acqVars, raw_data, latest_sensor_data, history_buffer, point >>

\* lines 363-366: without the sensor libraries the thread marks the health record
\* and returns
A_L363 ==
  /\ pc["acq"] = "L361"
  /\ IF ~HAVE_SENSORS
     THEN sensor_status' = "Disabled (No Sensors)" /\ Goto("acq", "exited")
     ELSE UNCHANGED sensor_status /\ Goto("acq", "L368")
  /\ UNCHANGED << restOfAcq, HAVE_SENSORS, telegram_bot_instance, smoke_detector_instance,
                  elapsed, since_attempt, raw_data, latest_sensor_data, history_buffer,
                  point >>

\* lines 368-369: Sensor() and IAQProcessor(); Sensor.__init__ (131-149) leaves
\* the status it found
A_L368 ==
  /\ pc["acq"] = "L368"
  /\ sensor_status' \in {"OK", "Error: BME688", "Error: PMSA003"}
  /\ Goto("acq", "L371")
  /\ UNCHANGED << restOfAcq, HAVE_SENSORS, telegram_bot_instance, smoke_detector_instance,
                  elapsed, since_attempt, raw_data, latest_sensor_data, history_buffer,
                  point >>

\* lines 371-373: wait a second at a time for the Telegram bot instance
A_L371 ==
  /\ pc["acq"] = "L371"
  /\ IF ~telegram_bot_instance /\ HAVE_SENSORS
     THEN Advance(TicksPerSecond) /\ UNCHANGED pc
     ELSE UNCHANGED << elapsed, since_attempt >> /\ Goto("acq", "L375")
  /\ UNCHANGED << restOfAcq, HAVE_SENSORS, telegram_bot_instance, smoke_detector_instance,
                  sensor_status, raw_data, latest_sensor_data, history_buffer, point >>

\* set_telegram_bot_instance (350-356), called by app.py line 411
SetBot ==
  /\ ~telegram_bot_instance
  /\ telegram_bot_instance' = TRUE
  /\ UNCHANGED << restOfAcq, pc, HAVE_SENSORS, smoke_detector_instance, sensor_status,
                  elapsed, since_attempt, raw_data, latest_sensor_data, history_buffer,
                  point >>

\* line 375: smoke_detector_instance = SmokeDetector(telegram_bot_instance)
A_L375 ==
  /\ pc["acq"] = "L375"
  /\ smoke_detector_instance' = TRUE
  /\ Goto("acq", "L379")
  /\ UNCHANGED << restOfAcq, HAVE_SENSORS, telegram_bot_instance, sensor_status, elapsed,
                  since_attempt, raw_data, latest_sensor_data, history_buffer, point >>

\* lines 380-384: the gate; when it opens, last_read_time = now
A_L379 ==
  /\ pc["acq"] = "L379"
  /\ IF read_gate(elapsed)
     THEN elapsed' = 0 /\ Goto("acq", "L386")
     ELSE UNCHANGED elapsed /\ Goto("acq", "L382")
  /\ UNCHANGED << restOfAcq, HAVE_SENSORS, telegram_bot_instance, smoke_detector_instance,
                  sensor_status, since_attempt, raw_data, latest_sensor_data,
                  history_buffer, point >>

\* lines 382-383: time.sleep(0.1); continue
A_L382 ==
  /\ pc["acq"] = "L382"
  /\ Advance(TicksPerSecond \div 10)
  /\ Goto("acq", "L379")
  /\ UNCHANGED << restOfAcq, HAVE_SENSORS, telegram_bot_instance, smoke_detector_instance,
                  sensor_status, raw_data, latest_sensor_data, history_buffer, point >>

\* line 386: raw_data = sensor.get_data(): a reading, {} when no sensor was
\* found, or None with the status lines 171 / 175 set
A_L386 ==
  /\ pc["acq"] = "L386"
  /\ \E seconds \in ReadSeconds :
       /\ elapsed' = Later(elapsed, seconds * TicksPerSecond)
       /\ since_attempt' = Later(0, seconds * TicksPerSecond)
  /\ \/ raw_data' \in CompleteReadings /\ UNCHANGED sensor_status
     \/ raw_data' = EmptyDict /\ sensor_status = "Error: BME688" /\ UNCHANGED sensor_status
     \/ raw_data' = NoneData /\ sensor_status' \in {"Recovering...", "Sensor Fault"}
  /\ Goto("acq", "L388")
  /\ UNCHANGED << restOfAcq, HAVE_SENSORS, telegram_bot_instance, smoke_detector_instance,
                  latest_sensor_data, history_buffer, point >>

\* lines 388 and 406-409: no data, a warning and the status, and the loop goes on
A_L388 ==
  /\ pc["acq"] = "L388"
  /\ IF truthy(raw_data)
     THEN UNCHANGED sensor_status /\ Goto("acq", "L389")
     ELSE sensor_status' = "Error: No Data" /\ Goto("acq", "L379")
  /\ UNCHANGED << restOfAcq, HAVE_SENSORS, telegram_bot_instance, smoke_detector_instance,
                  elapsed, since_attempt, raw_data, latest_sensor_data, history_buffer,
                  point >>

\* lines 389-399: process, merge, check_conditions and the stamps: the data point
\* is ready, or one of the calls raises
A_L389 ==
  /\ pc["acq"] = "L389"
  /\ \/ point' = Stamp(clock, alert_active, alert_state) /\ Goto("acq", "L402")
     \/ UNCHANGED point /\ Goto("acq", "L411")
  /\ UNCHANGED << restOfAcq, acqVars, raw_data, latest_sensor_data, history_buffer >>

\* lines 402-404: the data point is published under data_lock
A_L402 ==
  /\ pc["acq"] = "L402"
  /\ latest_sensor_data' = point
  /\ history_buffer' = history_append(history_buffer, point)
  /\ Goto("acq", "L379")
  /\ UNCHANGED << restOfAcq, acqVars, raw_data, point >>

\* an except clause that ends the thread
A_L411_exits ==
  /\ pc["acq"] = "L411"
  /\ sensor_status' = "Error: Thread Crash"
  /\ Goto("acq", "exited")
  /\ UNCHANGED << restOfAcq, HAVE_SENSORS, telegram_bot_instance, smoke_detector_instance,
                  elapsed, since_attempt, raw_data, latest_sensor_data, history_buffer,
                  point >>

\* lines 411-414: except Exception: the status, time.sleep(10), and the loop goes on
A_L411 ==
  /\ pc["acq"] = "L411"
  /\ sensor_status' = "Error: Thread Crash"
  /\ Advance(ERROR_SLEEP * TicksPerSecond)
  /\ Goto("acq", "L379")
  /\ UNCHANGED << restOfAcq, HAVE_SENSORS, telegram_bot_instance, smoke_detector_instance,
                  raw_data, latest_sensor_data, history_buffer, point >>

\* the thread as it is started, on a device with or without the sensor libraries
InitAcq ==
  /\ InitAlertEngine
  /\ clock = StartTime
  /\ pc = [t \in Threads |-> IF t = "acq" THEN "L361" ELSE "idle"]
  /\ InitPipeline
  /\ HAVE_SENSORS \in BOOLEAN
  /\ telegram_bot_instance \in BOOLEAN
  /\ smoke_detector_instance = FALSE
  /\ sensor_status = "Unknown"
  /\ elapsed = Saturation
  /\ since_attempt = Saturation
  /\ shutdown_requested = FALSE
  /\ InitProcessor
  /\ InitBuzzer
  /\ csv_rows = EmptyDict

AcqStep ==
  \/ A_L363 \/ A_L368 \/ A_L371 \/ A_L375 \/ A_L379 \/ A_L382 \/ A_L386 \/ A_L388
  \/ A_L389 \/ A_L402 \/ A_L411

NextAcq == AcqStep \/ SetBot

SpecAcq == InitAcq /\ [][NextAcq]_vars

\* the thread is scheduled again and again, and its sleeps end
FairSpecAcq == SpecAcq /\ WF_vars(AcqStep)

\* ------------------------------------------------------------ SpecShutdown
\* The three loops of SpecLoops and the exit of the process: cleanup_on_exit
\* (app.py, 413-415) is registered with atexit and calls iaqcalc.cleanup(), which
\* asks the loops to stop.
CleanupOnExit ==
  /\ ~shutdown_requested
  /\ shutdown_requested' = TRUE
  /\ UNCHANGED << engineVars, user_settings, clock, cycles, calls, pc, ret, now,
                  pipelineVars, acqVars, processorVars, sirenVars, csv_rows,
                  dismissed_at >>

AcquisitionLoop == S_L386 \/ S_L402 \/ S_L403 \/ S_L404
WriterLoop == W_L422 \/ W_L429 \/ W_L430 \/ W_L435 \/ W_L439
RetentionLoop == M_L487 \/ M_L488 \/ M_L489 \/ M_L491 \/ M_L499 \/ M_L525

NextShutdown == NextLoops \/ CleanupOnExit

SpecShutdown == Init /\ [][NextShutdown]_vars

\* every loop keeps running while it has a step to take
FairSpecShutdown ==
  /\ SpecShutdown
  /\ WF_vars(AcquisitionLoop) /\ WF_vars(WriterLoop) /\ WF_vars(RetentionLoop)

\* ------------------------------------------------------------ SpecMidnight
\* The acquisition loop and the persistence writer across a local midnight, with
\* the wall clock passing in steps of ShortGap seconds: a step with a reading
\* (S_L386) or without one (Elapse). The writer polls every second (line 424) and
\* a pass of it takes no time: the clock moves on only while the writer sleeps.
\* the first local (Asia/Kolkata) midnight after the epoch, in epoch seconds
Midnight == 24 * 3600 - (5 * 3600 + 1800)

\* the process was started in the evening, a minute or a little more before midnight
EveningStarts == { Midnight - CSV_WRITE_INTERVAL - k * ShortGap : k \in 0..2 }

\* the readings stop early enough for two more writes to follow the last of them
ReadsEnd == Midnight + CSV_WRITE_INTERVAL
EndTime == ReadsEnd + 2 * CSV_WRITE_INTERVAL

\* lines 422-425: the writer is in its time.sleep(1), the interval not yet over
WriterAsleep == pc["writer"] = "idle" /\ clock - last_check_time < CSV_WRITE_INTERVAL

InitMidnight ==
  /\ InitAlertEngine
  /\ clock \in EveningStarts
  /\ pc = [t \in Threads |-> "idle"]
  /\ InitPipeline
  /\ InitAcquisition
  /\ InitProcessor
  /\ InitBuzzer
  /\ csv_rows = EmptyDict

\* ShortGap seconds pass in which the sensor gives no reading (lines 406-409).
\* Time never stops: from EndTime on, for the rest of that day, the clock is kept
\* at EndTime and last_check_time is moved back instead, which leaves the
\* differences and the dates the writer computes as they are.
Elapse ==
  /\ pc["acq"] = "idle"
  /\ WriterAsleep
  /\ IF clock < EndTime
     THEN clock' = clock + ShortGap /\ UNCHANGED last_check_time
     ELSE UNCHANGED clock /\ last_check_time' = last_check_time - ShortGap
  /\ UNCHANGED << daemonVars, engineVars, user_settings, cycles, calls, pc, ret, now,
                  storeVars, partition, buffer_copy, flushed, restarts, retentionVars >>

\* a reading, while history has room for it without evicting an entry (the real
\* capacity of 43200 entries holds a day of readings)
EveningRead ==
  /\ cycles < HISTORY_BUFFER_SIZE
  /\ WriterAsleep
  /\ clock < ReadsEnd
  /\ S_L386

NextMidnight ==
  \/ EveningRead \/ S_L402 \/ S_L403 \/ S_L404
  \/ W_L422 \/ W_L429 \/ W_L430 \/ W_L435 \/ W_L439
  \/ Elapse

SpecMidnight == InitMidnight /\ [][NextMidnight]_vars

\* time passes and both loops keep running
FairSpecMidnight ==
  /\ SpecMidnight
  /\ WF_vars(Elapse)
  /\ WF_vars(S_L402 \/ S_L403 \/ S_L404)
  /\ WF_vars(WriterLoop)

\* ------------------------------------------------------------ claims
\* what a sampling cycle did, read off the state it ends in
CycleDone == op = "check_conditions"
NewSmoke == alert_state = "SMOKE" /\ pre.alert_state # "SMOKE"
AlertsQueued == Cardinality({ i \in DOMAIN queued : queued[i] = "alert" })
Sounding == siren_alive /\ ~stop_flag
Iaq == Get(data, "iaq", 0)

\* C1: a sampling cycle changes the state to SMOKE only if its trigger_count is at
\* least 2; no operation other than a sampling cycle makes a SMOKE transition.
C1_SmokeNeedsTwoTriggers ==
  NewSmoke => (CycleDone /\ trigger_count >= 2)

C1_Witness == CycleDone /\ NewSmoke /\ trigger_count = 2

\* C2: any two SMOKE transitions are more than alert_cooldown seconds apart, also
\* when the alert was cleared or dismissed in between, and a sampling cycle queues
\* one alert notification if it makes a SMOKE transition and none otherwise.
C2_CooldownRespected ==
  /\ \A i \in 1..(Len(smoke_times) - 1) :
       smoke_times[i + 1] - smoke_times[i] > alert_cooldown
  /\ (CycleDone /\ trigger_count >= 2 /\ smoke_times # << >>
        /\ clock - smoke_times[Len(smoke_times)] \in 1..alert_cooldown) => ~NewSmoke
  /\ CycleDone => AlertsQueued = (IF NewSmoke THEN 1 ELSE 0)

\* a cycle with two triggers, 10 s after a SMOKE transition that was cleared since
C2_Witness ==
  /\ CycleDone /\ trigger_count >= 2
  /\ smoke_times # << >> /\ clock - smoke_times[Len(smoke_times)] = ShortGap
  /\ ~pre.alert_active /\ ~alert_active /\ queued = << >>

\* C3: a sampling cycle that starts in SMOKE and computes trigger_count = 0 ends
\* with alert_active false, the state not SMOKE, the siren stop requested and
\* exactly one recovery notification queued.
C3_SmokeClears ==
  (CycleDone /\ pre.alert_state = "SMOKE" /\ trigger_count = 0) =>
     (~alert_active /\ alert_state # "SMOKE" /\ stop_flag /\ queued = << "recovery" >>)

C3_Witness ==
  CycleDone /\ pre.alert_state = "SMOKE" /\ trigger_count = 0 /\ alert_state = "SAFE"

\* a quiet cycle: no trigger fired (or none was evaluated) and iaq under the threshold
QuietCycle == op' = "check_conditions" /\ trigger_count' <= 0
              /\ Get(data', "iaq", 0) < user_settings.alertThreshold

Quiescent == \A t \in Threads : pc[t] = "idle"
C5_TestOffStaysOff ==
  (Quiescent /\ ~test_alert_active) =>
     (alert_state # "TEST" /\ (alert_state = "SAFE" => ~alert_active))

\* C6: a sampling cycle whose reading makes IAQProcessor.process return the empty
\* result leaves alert_state and alert_active as they were.
C6_EmptyResultKeepsAlertState ==
  (CycleDone /\ process_empty(data)) =>
     (alert_state = pre.alert_state /\ alert_active = pre.alert_active)

C8_WarningTracksThreshold ==
  (CycleDone /\ ~alert_active /\ "iaq" \in DOMAIN data) =>
     /\ (Iaq > user_settings.alertThreshold => alert_state = "WARNING")
     /\ (Iaq < user_settings.alertThreshold => alert_state = "SAFE")

\* C9: with smoke detection disabled, a sampling cycle that starts in SMOKE ends in
\* SAFE with alert_active false and the siren stop requested, and no sampling
\* cycle makes a SMOKE transition.
C9_DisabledClearsSmoke ==
  (CycleDone /\ ~user_settings.enableSmokeDetection) =>
     /\ (pre.alert_state = "SMOKE" => (alert_state = "SAFE" /\ ~alert_active /\ stop_flag))
     /\ ~NewSmoke
     /\ trigger_count = -1

C9_Witness ==
  CycleDone /\ ~user_settings.enableSmokeDetection /\ pre.alert_state = "SMOKE"
  /\ alert_state = "SAFE"

\* The end-to-end scenario: the window is full, the reading has pm25 = 150 and
\* voc_index = 260, the gas resistance dropped by 30000 and the temperature rose by
\* 4 degrees across the window, the cycle started in SAFE with the cooldown elapsed,
\* detection enabled and the TEST override off.
Scenario ==
  /\ CycleDone /\ Len(temp_history) = TEMP_SPIKE_WINDOW
  /\ user_settings.enableSmokeDetection /\ ~test_alert_active
  /\ pre.alert_state = "SAFE" /\ ~pre.alert_active
  /\ cooldown_elapsed(clock, pre.last_alert_time)
  /\ Get(data, "pm25", 0) = 150 /\ Get(data, "voc_index", 0) = 260
  /\ gas_change_x2(gas_history) = 2 * 30000
  /\ temp_spike(temp_history) = 4

ScenarioOutcome ==
  /\ alert_state = "SMOKE" /\ alert_active
  /\ queued = << "alert" >>
  /\ Sounding <=> user_settings.emergencyAlert

\* C10 as stated: the scenario computes trigger_count = 3, goes SAFE -> SMOKE, queues
\* exactly one notification and starts the siren iff emergencyAlert is set.
C10_Original == Scenario => (trigger_count = 3 /\ ScenarioOutcome)

\* C10 as amended: the scenario computes trigger_count = 4 (PM2.5, the VOC/gas
\* condition counted twice, the temperature spike), goes SAFE -> SMOKE, queues
\* exactly one notification and starts the siren iff emergencyAlert is set.
C10_ScenarioTriggersSmoke == Scenario => (trigger_count = 4 /\ ScenarioOutcome)

C10_Witness == Scenario /\ cycles = 5 /\ user_settings.emergencyAlert /\ Sounding

\* ------------------------------------------------------------ claims on retention
\* a retention pass has just run: retention_period, run_manual, days and deleted
\* are those of that pass, today the day it ran on
PassDone == pc["maint"] = "L525"
\* the files that were on disk when the last pass started
FilesBefore == log_files \cup deleted
\* a manual cleanup has been requested and no round of the worker has consumed it
Pending == "run_manual_cleanup" \in DOMAIN user_settings

\* C17: a retention pass that read logRetentionPeriod "forever" deletes no file,
\* whether it is the daily one or a manually requested one.
C17_ForeverDeletesNothing ==
  (PassDone /\ retention_period = Forever) => deleted = {}

\* C18: a pass with a valid horizon of N days deletes exactly the files whose name
\* is a date more than N days before the day of the pass; a file whose name is no
\* valid date stays.
C18_DeletesExactlyOlderThanHorizon ==
  (PassDone /\ valid_retention(retention_period)) =>
     deleted = { f \in FilesBefore :
                   f.age >= 0
                   /\ f.age + (today - StartDay) > NatOf(drop_last(retention_period)) }

\* a 90-day pass on the start date: the file of 91 days ago is gone, those of 90
\* and 89 days ago and the three files that are no date are still there
C18_Witness ==
  /\ PassDone /\ retention_period = << "9", "0", "d" >> /\ today = StartDay
  /\ { f.age : f \in deleted } = {91}
  /\ \E f \in log_files : f.age = 90
  /\ \E f \in log_files : f.age = 89
  /\ Cardinality({ f \in log_files : f.age = -1 }) = 3

\* C19: a pass whose retention string is neither "forever" nor '<non-negative
\* integer>d' uses a horizon of exactly 90 days.
C19_InvalidFallsBackTo90 ==
  (PassDone /\ retention_period # Forever /\ ~valid_retention(retention_period)) =>
     days = RETENTION_DEFAULT_DAYS

\* C20: a manual request is served at once and once: no day of the worker's sleep
\* goes by while a request is pending, the pass that consumes the flag clears it,
\* and there are never more manual passes than requests.
C20_ManualRunImmediate ==
  /\ [][Pending => today' = today]_vars
  /\ []((PassDone /\ run_manual /\ requests = passes.manual) => ~Pending)
  /\ [](passes.manual <= requests)

\* ------------------------------------------------------------ claims on the store
Consistent(p) == p.alert_active <=> p.state \in {"SMOKE", "TEST"}

\* C11: every data point published to latest_sensor_data or history_buffer carries
\* alert stamps that belong together: alert_active is true exactly when state is
\* SMOKE or TEST.
C11_PublishedPairConsistent ==
  /\ latest_sensor_data # EmptyDict => Consistent(latest_sensor_data)
  /\ \A i \in 1..Len(history_buffer) : Consistent(history_buffer[i])

LastN(q, n) == IF Len(q) <= n THEN q ELSE SubSeq(q, Len(q) - n + 1, Len(q))

\* C12: history_buffer never holds more than its capacity, and it is the last
\* (capacity) entries appended, in the order they were appended.
C12_HistoryBounded ==
  /\ Len(history_buffer) <= HISTORY_BUFFER_SIZE
  /\ history_buffer = LastN(appended, HISTORY_BUFFER_SIZE)

\* more entries appended than the capacity, and the ring is full
C12_Witness ==
  /\ Len(appended) > HISTORY_BUFFER_SIZE
  /\ Len(history_buffer) = HISTORY_BUFFER_SIZE
  /\ history_buffer[1] = appended[Len(appended) - HISTORY_BUFFER_SIZE + 1]

\* C13: history_buffer changes only by the append of line 404, on the acquisition
\* thread, and its timestamps never decrease from oldest to newest.
C13_SingleProducerInOrder ==
  /\ [][history_buffer' # history_buffer =>
          (pc["acq"] = "L404" /\ history_buffer' = history_append(history_buffer, point))]_vars
  /\ [](\A i \in 1..Len(history_buffer) : \A j \in i..Len(history_buffer) :
          history_buffer[i].timestamp <= history_buffer[j].timestamp)

\* the writer has copied a history of two entries and the retention worker has
\* run a pass, and the history is still there
C13_Witness ==
  /\ Len(buffer_copy) >= 2 /\ pc["writer"] = "idle"
  /\ passes.total > 0
  /\ Len(history_buffer) >= Len(buffer_copy)

\* C14: whenever data_lock is free, latest_sensor_data is the newest entry of
\* history_buffer, or both are empty.
C14_LatestIsNewest ==
  data_lock = "free" =>
     IF history_buffer = << >> THEN latest_sensor_data = EmptyDict
     ELSE latest_sensor_data = history_buffer[Len(history_buffer)]

\* two publications made, the lock free again
C14_Witness ==
  /\ data_lock = "free" /\ Len(history_buffer) >= 2
  /\ latest_sensor_data = history_buffer[Len(history_buffer)]
  /\ latest_sensor_data # history_buffer[1]

\* the lines of each loop that lie inside its `with data_lock:` block
BlockLines ==
  [acq |-> {"L403", "L404"}, writer |-> {"L430", "L435"},
   maint |-> {"L488", "L489"}, api |-> {}]

\* C15: a thread holds data_lock exactly while it is at a line inside its `with`
\* block (so never while it sleeps, reads a sensor or touches a file), and a lock
\* that is held is released.
C15_LockOnlyInsideBlocks ==
  /\ [](\A t \in Threads : data_lock = t <=> pc[t] \in BlockLines[t])
  /\ (data_lock # "free") ~> (data_lock = "free")

\* the writer has left its block by the early `continue` (it looked before the
\* first publication and has copied nothing), the worker and the acquisition loop
\* have been through their blocks, and the lock is free
C15_Witness ==
  /\ data_lock = "free"
  /\ pc["writer"] = "idle" /\ last_check_time = StartTime /\ buffer_copy = << >>
  /\ passes.total > 0
  /\ history_buffer # << >>

\* C16: after a restart the day's partition still holds every bucket it held
\* before the restart.
C16_RestartKeepsFlushedBuckets ==
  \A d \in DOMAIN flushed : d \in DOMAIN partition /\ flushed[d] \subseteq partition[d]

\* ------------------------------------------------------------ claims on the processor
HasMetrics == calculated_data # EmptyDict

\* C24: for every reading with the four required fields, whatever the baseline and
\* the window the processor holds, iaq, aqi and voc_index lie in 0..500.
C24_MetricsInRange ==
  HasMetrics =>
    /\ calculated_data.iaq \in 0..500
    /\ calculated_data.aqi \in 0..500
    /\ calculated_data.voc_index \in 0..500

\* the third sample of a falling gas series, hot and humid, with particulates
\* beyond the table: the score is held at 500 by the cap
C24_Witness ==
  /\ HasMetrics /\ Len(baselines) = 3
  /\ gas_window = << 500, 10, 10 >>
  /\ raw_data.temperature = 85 /\ raw_data.pm25 = 60000
  /\ calculated_data.aqi = 500 /\ calculated_data.voc_index > 0
  /\ calculated_data.iaq = 500

\* C25: _pm25_to_aqi interpolates the breakpoint table: f(12.0) = 50,
\* f(35.4) = 100, f(50.0) = 137, f(0) = 0, f(600) = 500, every negative value gives
\* 0, and 500 is returned only above the top bracket (pm25 > 500.4).
C25_AqiInterpolatesTable ==
  HasMetrics =>
    LET pm == raw_data.pm25
        aqi == calculated_data.aqi
    IN /\ pm = 1200 => aqi = 50
       /\ pm = 3540 => aqi = 100
       /\ pm = 5000 => aqi = 137
       /\ pm = 0 => aqi = 0
       /\ pm = 60000 => aqi = 500
       /\ pm < 0 => aqi = 0
       /\ aqi = 500 => pm > 50040

\* C29: smoothed gas values 100000, 90000, 80000 ohms on three consecutive valid
\* samples (raw values 100000, 80000, 60000) give the baselines 100000, 98000,
\* 94400: the first sample initialises, each later one applies
\* alpha * smoothed + (1 - alpha) * baseline with alpha = 0.2.
C29_BaselineSequence ==
  LET series == << 100, 80, 60 >> IN
  \A k \in 1..3 :
    (Len(baselines) = k /\ gas_window = SubSeq(series, 1, k)) =>
       baselines = SubSeq(<< Whole(100), Whole(98), Frac(944, 10) >>, 1, k)

C29_Witness ==
  /\ gas_window = << 100, 80, 60 >>
  /\ Len(baselines) = 3
  /\ ewma_baseline = Frac(944, 10)

\* ------------------------------------------------------------ claims on the CSV rows
Written == pc["writer"] = "idle"
TodaysSamples ==
  { i \in 1..Len(buffer_copy) : local_day(buffer_copy[i].timestamp) = local_day(clock) }
InBucket(b) == { i \in TodaysSamples : bucket(buffer_copy[i].timestamp) = b }

RECURSIVE Total(_, _)
\* the sum of field k over the samples at the positions in picks
Total(picks, k) ==
  IF picks = {} THEN Whole(0)
  ELSE LET i == CHOOSE j \in picks : TRUE
       IN FAdd(buffer_copy[i][k], Total(picks \ {i}, k))
MeanOf(b, k) == FMul(Total(InBucket(b), k), Frac(1, Cardinality(InBucket(b))))

\* exactly one row per non-empty 30 s bucket of today's samples
OneRowPerBucket ==
  DOMAIN csv_rows = { bucket(buffer_copy[i].timestamp) : i \in TodaysSamples }

\* C26 as stated: every logged field of a row is round(mean) of the bucket's
\* samples, to the nearest integer.
C26_Original ==
  Written =>
    /\ OneRowPerBucket
    /\ \A b \in DOMAIN csv_rows : \A k \in params_to_log :
         csv_rows[b][k] = Whole(round(MeanOf(b, k)))

\* C26: the file holds exactly one row per non-empty 30 s bucket of today's
\* samples in the snapshot, none for an empty bucket, and each logged field of a
\* row is the mean of the bucket's samples rounded to the field's precision: to
\* the nearest integer for iaq, to one decimal for temperature.
C26_OneRowPerBucketRoundedMean ==
  Written =>
    /\ OneRowPerBucket
    /\ \A b \in DOMAIN csv_rows :
         /\ csv_rows[b].iaq = Whole(round(MeanOf(b, "iaq")))
         /\ csv_rows[b].temperature =
              Tenths(round(FMul(MeanOf(b, "temperature"), Whole(10))))

\* one sample of yesterday, two in today's first bucket (iaq 30 and 33, 20.3 and
\* 20.4 degrees): a single row with iaq 32 and 20.4 degrees
C26_Witness ==
  /\ Written
  /\ Len(buffer_copy) = 3
  /\ buffer_copy[1].timestamp = 66590
  /\ buffer_copy[2].timestamp = 66600 /\ buffer_copy[3].timestamp = 66610
  /\ DOMAIN csv_rows = {2220}
  /\ csv_rows[2220] = [iaq |-> Whole(32), temperature |-> Tenths(204)]

\* ------------------------------------------------------------ claims on the siren
Alive == { i \in DOMAIN sirens : is_alive(i) }
SoundingSirens == { i \in DOMAIN sirens : sirens[i] = "L80" }

\* at most one siren thread exists at a time
AtMostOneSiren == Cardinality(Alive) <= 1

\* no call is in flight and no siren thread is on its way out
Settled ==
  /\ \A t \in Callers : pc[t] = "idle"
  /\ \A i \in DOMAIN sirens : sirens[i] # "L88" /\ (sirens[i] = "L80" => ~stop_flag)

\* the last call to return was a start_alert and no stop_alert took effect since
StartedLast ==
  /\ buzzer_calls # << >> /\ buzzer_calls[Len(buzzer_calls)] = "start"
  /\ ~stop_flag

SirenKeepsSounding == (Settled /\ StartedLast) => Cardinality(SoundingSirens) = 1

\* C27: under every interleaving of start_alert() and stop_alert() calls with the
\* siren thread's own exit, at most one siren thread exists at a time, and after
\* a start_alert() that no stop_alert() follows exactly one siren keeps sounding.
C27_SirenIdempotent == AtMostOneSiren /\ SirenKeepsSounding

\* ------------------------------------------------------------ claims on the dismissal
\* C30: after dismiss_alert() has cleared an active alert at time t, no step makes
\* the SMOKE transition before t + 300 s, whichever way the dismiss call on the
\* API thread interleaves with a sampling cycle inside check_conditions.
C30_DismissRestartsCooldown ==
  [][(alert_state' = "SMOKE" /\ alert_state # "SMOKE" /\ dismissed_at >= 0)
       => clock' - dismissed_at > alert_cooldown]_vars

\* ------------------------------------------------------------ claims on the loops
Loops == {"acq", "writer", "maint"}

\* a loop leaves the top of its `while True:` for another iteration
StartsIteration == \E t \in Loops : pc[t] = "idle" /\ pc'[t] # "idle"

\* C21: once shutdown is requested, no loop begins another iteration, and each of
\* the acquisition loop, the writer and the retention worker ends.
C21_LoopsStopOnShutdown ==
  /\ [][shutdown_requested => ~StartsIteration]_vars
  /\ shutdown_requested ~> (\A t \in Loops : pc[t] = "exited")

PastReadiness == pc["acq"] \notin {"L361", "L368", "L371", "L375"}
ReadFailed == pc["acq"] = "L388" /\ ~truthy(raw_data)
CycleRaised == pc["acq"] = "L411"

\* C22: past the readiness wait the acquisition loop never ends, and after a
\* failed read (None or empty data) and after an exception inside a cycle a later
\* read attempt is made.
C22_LoopNeverTerminates ==
  /\ [](smoke_detector_instance => pc["acq"] # "exited")
  /\ (ReadFailed \/ CycleRaised) ~> (pc["acq"] = "L386")

\* a read is being attempted after a cycle that raised: the status still says so
C22_Witness ==
  /\ pc["acq"] = "L386"
  /\ sensor_status = "Error: Thread Crash"
  /\ elapsed = 0

\* C23: two consecutive calls of sensor.get_data() start at least
\* SENSOR_READ_INTERVAL seconds apart, also after a failed read, a slow read and
\* the 10 s error sleep.
C23_ReadsAtLeastIntervalApart ==
  [][(pc["acq"] = "L386" /\ pc'["acq"] = "L388")
       => since_attempt >= SENSOR_READ_INTERVAL * TicksPerSecond]_vars

\* a read is attempted exactly one interval after the one before it, which had
\* returned no data
C23_Witness ==
  /\ pc["acq"] = "L386"
  /\ since_attempt = SENSOR_READ_INTERVAL * TicksPerSecond
  /\ sensor_status = "Error: No Data"

\* C28: without the sensor capability the thread returns at once: it reads no
\* sensor, publishes nothing, creates no alert engine, and the health record says
\* disabled.
C28_NoSensorsExitsAtOnce ==
  ~HAVE_SENSORS =>
    /\ pc["acq"] \in {"L361", "exited"}
    /\ pc["acq"] = "exited" => sensor_status = "Disabled (No Sensors)"
    /\ raw_data = EmptyDict /\ since_attempt = Saturation
    /\ latest_sensor_data = EmptyDict /\ history_buffer = << >>
    /\ ~smoke_detector_instance

C28_Witness ==
  /\ ~HAVE_SENSORS
  /\ pc["acq"] = "exited"
  /\ sensor_status = "Disabled (No Sensors)"

\* C31: a sampling cycle run with the TEST override set and smoke detection enabled
\* ends in state TEST with alert_active true and has short-circuited: the two
\* rolling windows are as they were, no trigger was evaluated, no SMOKE or WARNING
\* transition was made, the cooldown clock is untouched and nothing was queued.
C31_TestOverrideShortCircuits ==
  [][(op' = "check_conditions" /\ test_alert_active /\ user_settings.enableSmokeDetection) =>
       /\ alert_state' = "TEST" /\ alert_active'
       /\ temp_history' = temp_history /\ gas_history' = gas_history
       /\ trigger_count' = -1
       /\ smoke_times' = smoke_times /\ last_alert_time' = last_alert_time
       /\ queued' = << >>]_vars

\* such a cycle with full windows and a reading above the particulate threshold,
\* run after the test alert was dismissed: it puts the state back to TEST
C31_Witness ==
  /\ CycleDone /\ test_alert_active /\ user_settings.enableSmokeDetection
  /\ Len(temp_history) = TEMP_SPIKE_WINDOW /\ Get(data, "pm25", 0) > PM_TRIGGER
  /\ pre.alert_state = "SAFE" /\ ~pre.alert_active
  /\ alert_state = "TEST" /\ alert_active /\ trigger_count = -1

\* C32: whenever no thread is inside an alert operation, alert_state is one of SAFE,
\* WARNING, SMOKE, TEST and alert_active is true exactly when it is SMOKE or TEST,
\* under every interleaving of check_conditions with toggle_test and dismiss_alert.
C32_GlobalsConsistent ==
  Quiescent =>
    /\ alert_state \in {"SAFE", "WARNING", "SMOKE", "TEST"}
    /\ alert_active <=> alert_state \in {"SMOKE", "TEST"}

\* C33: whenever no thread is inside an alert operation, a siren that was started
\* and not stopped since sounds during an active alert only (so that dismiss_alert,
\* which acts on an active alert, can silence it), under every interleaving of
\* trigger_alert with dismiss_alert and toggle_test.
C33_SirenOnlyDuringAlert ==
  (Quiescent /\ Sounding) => alert_active

\* the 30 s bucket of entry p is in the partition file of p's own local day
Logged(p) ==
  /\ local_day(p.timestamp) \in DOMAIN partition
  /\ bucket(p.timestamp) \in partition[local_day(p.timestamp)]

\* C34: with logging enabled and the process running on, every reading appended to
\* history is eventually in the partition file of its own local calendar day, also
\* a reading taken in the last minute before local midnight.
C34_EveryReadingReachesItsDay ==
  \A i \in 1..HISTORY_BUFFER_SIZE :
    (Len(appended) >= i) ~> (Len(appended) >= i /\ Logged(appended[i]))

\* C35: _pm25_to_aqi is non-decreasing: of two samples, the one with the larger
\* (or equal) PM2.5 concentration gets the larger (or equal) index, also when a
\* concentration lies between two rows of the table.
C35_AqiMonotone ==
  [][(HasMetrics /\ HasMetrics' /\ raw_data.pm25 <= raw_data'.pm25) =>
       calculated_data.aqi <= calculated_data'.aqi]_vars

\* a cycle that evaluated the triggers on full windows and in which the VOC/gas
\* condition fired alone: particulates not above 100, no temperature spike
OnlyVocGas ==
  /\ CycleDone /\ trigger_count >= 0
  /\ Get(data, "pm25", 0) <= PM_TRIGGER
  /\ temp_spike(temp_history) <= TEMP_SPIKE_THRESHOLD
  /\ \/ Get(data, "voc_index", 0) > VOC_TRIGGER
     \/ gas_change_x2(gas_history) > 2 * GAS_DROP_TRIGGER

\* C36: a cycle in which only the VOC/gas condition fires has trigger_count = 2
\* and, if it started with no alert active and the cooldown elapsed, makes the
\* SMOKE transition.
C36_VocGasCountsTwice ==
  OnlyVocGas =>
    /\ trigger_count = 2
    /\ (~pre.alert_active /\ cooldown_elapsed(clock, pre.last_alert_time)) =>
         (NewSmoke /\ alert_active /\ AlertsQueued = 1)

\* the VOC index alone above its threshold, the gas resistance steady
C36_Witness ==
  /\ OnlyVocGas /\ Get(data, "voc_index", 0) > VOC_TRIGGER
  /\ gas_change_x2(gas_history) = 0
  /\ trigger_count = 2 /\ NewSmoke /\ alert_active

\* the values of sensor_status that report a failed read or a failed cycle
ErrorStatuses == {"Recovering...", "Sensor Fault", "Error: No Data", "Error: Thread Crash"}
\* the step that handles a failed read, and the step that ends a successful cycle
FailedReadStep == ReadFailed /\ pc'["acq"] = "L379"
PublishStep == pc["acq"] = "L402" /\ pc'["acq"] = "L379"

\* C37: a failed read leaves latest, history and the alert state as they were and
\* sets sensor_status to an error value, and a read cycle that succeeds ends with
\* sensor_status reporting no error.
C37_HealthFollowsSensor ==
  /\ [][FailedReadStep =>
          /\ latest_sensor_data' = latest_sensor_data
          /\ history_buffer' = history_buffer
          /\ alert_state' = alert_state /\ alert_active' = alert_active
          /\ sensor_status' \in ErrorStatuses]_vars
  /\ [][PublishStep => sensor_status' \notin ErrorStatuses]_vars

====
